---------------------------- MODULE Spec2Model ----------------------------
(***************************************************************************)
(* A model of the hat codec of HatsPlusPlus-Editor-rs: the metapixel       *)
(* stream (metapixels.rs), the animation record (animations.rs), range     *)
(* detection and expansion (is_range.rs, frames_from_range.rs), file name  *)
(* parsing and area split (hat_utils.rs) and the hat bundle with its       *)
(* element registries, load and save (hats.rs).                            *)
(*                                                                         *)
(* Conventions.  Option<T> is a sequence of length 0 (None) or 1 (Some).   *)
(* A Rust `x as u8` is U8(x).  Strings are sequences of one-character      *)
(* strings.  Enumerations are the sequences of their variant names, the    *)
(* ordinal of a variant being its position minus one.                      *)
(***************************************************************************)
EXTENDS Integers, Sequences, FiniteSets, TLC

VARIABLES
    \* ---- animation codec (animations.rs, hat_utils.rs) ----
    anim,       \* the Animation handed to gen_metapixels
    stream,     \* the Vec<Metapixel> gen_metapixels returned
    decoded,    \* the Option<Animation> get_animation returned
    cpc,        \* position of the codec run: "start", "encoded", "decoded", "panic"
    \* ---- file name parsing (hat_utils.rs) ----
    stem,       \* the file stem handed to get_name_and_size
    parsed,     \* the HatNameAndSize it returned
    npc,        \* "start", "done"
    \* ---- reading an element file (hat_utils.rs) ----
    file,       \* the PNG file on disk: its stem and its bitmap (None: not a readable PNG)
    readres,    \* the Result get_metapixels_and_size returned (None: Err)
    inserted,   \* whether a foreign pixel was put into the file's metapixel area
    rpc,        \* "start", "read"
    \* ---- saving an element (hats.rs) ----
    elem,       \* the element SaveHat::save is called on
    saved,      \* how save ended, and the file it wrote
    readback,   \* what get_metapixels_and_size returns for the written file
    spc,        \* "start", "saved", "read"
    \* ---- the hat bundle and the id registries (hats.rs, animations.rs) ----
    directory,        \* the directory Hat::load is given: None, or its files
    bundle,           \* the Hat: unique_elemets and pets
    HAT_ID_COUNTER,   \* thread_local HAT_ID_COUNTER
    FRAME_ID_COUNTER, \* thread_local FRAME_ID_COUNTER
    anim_frames,      \* anim.frames of the animation open in the editor
    edits,            \* operations applied since the load
    hpc,              \* "start", "loaded", "failed"
    \* ---- decoding record lists; the Wings element (hat_utils.rs, hats.rs) ----
    wings,      \* the Wings that is encoded: None when a file content is loaded
    records,    \* the records of a file: the encoded Wings, or any content
    got,        \* get_animation(&records, i) for every index i
    wloaded,    \* how Wings::load_from_name_and_size ended, and its Wings
    wpc,        \* "start", "encoded", "got", "loaded"
    \* ---- the editor's tabs and their textures (main.rs, tabs.rs, texture.rs) ----
    tabs,       \* dock_state: the open tabs, each with its Hat
    gl,         \* the GL context: texture names created, delete_texture calls per name
    disk,       \* the directories: file name -> image, as Hat::save left them
    ops,        \* editor operations applied, and the last of them
    valid_names,\* the names HatNameAndSize::is_name_valid accepts
    \* ---- the help tab (tabs.rs, sprite_drawer.rs) ----
    help,       \* HelpTabData: state and the four example drawers
    trace,      \* the values of help.state, one per tick
    \* ---- is_range, frames_from_range on their own (is_range.rs, frames_from_range.rs) ----
    range_in,   \* start and end handed to frames_from_range
    range_out,  \* None, or the Vec it returned
    \* ---- pets (hats.rs) ----
    pet,        \* the FlyingPet or WalkingPet that is encoded
    pet_records,\* what its gen_metapixels returned
    pet_loaded, \* None, or the pet loaded from pet_records
    ppc         \* "start", "encoded", "loaded"

codecVars == <<anim, stream, decoded, cpc>>
nameVars == <<stem, parsed, npc>>
readVars == <<file, readres, inserted, rpc>>
saveVars == <<elem, saved, readback, spc>>

hatVars == <<directory, bundle, HAT_ID_COUNTER, FRAME_ID_COUNTER, anim_frames, edits, hpc>>

wingsVars == <<wings, records, got, wloaded, wpc>>

appVars == <<tabs, gl, disk, ops, valid_names>>
keyVars == <<help, trace>>
rangeVars == <<range_in, range_out>>
petVars == <<pet, pet_records, pet_loaded, ppc>>

vars == <<codecVars, nameVars, readVars, saveVars, hatVars, wingsVars,
          appVars, keyVars, rangeVars, petVars>>

---------------------------------------------------------------------------
\* Bounds of the model.

\* Longest frame list of an Animation.
MaxFrames == 3
\* Frame values are 0..MaxFrameValue and the largest byte, 255.
MaxFrameValue == 2
\* Longest file stem handed to get_name_and_size.
MaxStemLen == 5
\* Most metapixel columns of an element file that is read.
MaxMetaCols == 2
\* Most animations of an element that is saved.
MaxAnims == 2
\* Greatest height of the bitmap of an element that is saved.
MaxHeight == 3
\* Most operations applied to a bundle after it is loaded.
MaxEdits == 2
\* Most records of a file content after its animation headers.
MaxRecords == 3

---------------------------------------------------------------------------
\* Option<T>.

None == <<>>
Some(x) == <<x>>
IsSome(o) == Len(o) = 1
Unwrap(o) == o[1]

\* `x as u8` on an i32: truncation to the low eight bits.
U8(x) == x % 256

\* All sequences over S of length lo..hi.
SeqsOf(S, lo, hi) == UNION {[1..n -> S] : n \in lo..hi}

---------------------------------------------------------------------------
\* metapixels.rs

\* enum MetapixelType, in declaration order (ordinal = index - 1).
MetapixelTypeNames ==
    << "StrappedOn", "IsBigHat", "FrameSize", "AnimationType", "AnimationDelay",
       "AnimationLoop", "AnimationFrame", "AnimationFramePeriod", "LinkFrameState",
       "WingsGeneralOffset", "WingsCrouchOffset", "WingsRagdollOffset",
       "WingsSlideOffset", "GenerateWingsAnimations", "PetChangesAngle",
       "PetDistance", "PetNoFlip", "WingsAutoGlideFrame", "WingsAutoIdleFrame",
       "WingsAutoAnimationsSpeed", "ChangeAnimationsEveryLevel", "PetSpeed",
       "WingsNetOffset", "OnSpawnAnimation" >>

\* MetapixelType::from_u8 (derive FromPrimitive): Some(variant) for a valid ordinal.
MetapixelType_from_u8(r) ==
    IF r \in 0..(Len(MetapixelTypeNames) - 1) THEN Some(MetapixelTypeNames[r + 1]) ELSE None

\* `pixel_type as u8`.
MetapixelType_as_u8(t) ==
    CHOOSE r \in 0..(Len(MetapixelTypeNames) - 1) : MetapixelTypeNames[r + 1] = t

\* Metapixel::new without the opcode test.
Metapixel_new_unchecked(r, g, b) == Some([r |-> r, g |-> g, b |-> b])

\* Metapixel::new: None unless r is an opcode ordinal.
Metapixel_new(r, g, b) ==
    IF IsSome(MetapixelType_from_u8(r)) THEN Some([r |-> r, g |-> g, b |-> b]) ELSE None

\* Metapixel::get_type.
get_type(m) == Unwrap(MetapixelType_from_u8(m.r))

\* Metapixels::push: appends the pixel when Metapixel::new accepts it.
Metapixels_push(pixels, pixel_type, g, b) ==
    pixels \o Metapixel_new(MetapixelType_as_u8(pixel_type), g, b)

---------------------------------------------------------------------------
\* is_range.rs, frames_from_range.rs

\* is_range evaluates `frames.len() - 1` on a usize: with an empty slice the
\* subtraction overflows (a panic in a debug build; in a release build it wraps
\* and frames[0] is then indexed out of bounds, a panic as well).
is_range_panics(frames) == Len(frames) = 0

\* is_range accepting only the step +1.
is_range_ascending(frames) ==
    \A i \in 1..(Len(frames) - 1) : frames[i + 1] - frames[i] = 1

\* is_range, for a non-empty slice: no adjacent pair differs by other than 1
\* in absolute value.
is_range(frames) ==
    \A i \in 1..(Len(frames) - 1) :
        LET d == frames[i] - frames[i + 1] IN (IF d < 0 THEN -d ELSE d) = 1

\* frames_from_range without the `range.rev()` of start > end.
frames_from_range_no_rev(start, end) ==
    LET min_frame == IF start < end THEN start ELSE end
        max_frame == IF start > end THEN start ELSE end
    IN  [i \in 1..(max_frame - min_frame + 1) |-> min_frame + (i - 1)]

\* frames_from_range: min..=max, reversed when start > end.
frames_from_range(start, end) ==
    LET min_frame == IF start < end THEN start ELSE end
        max_frame == IF start > end THEN start ELSE end
        n == max_frame - min_frame + 1
    IN  IF start > end THEN [i \in 1..n |-> max_frame - (i - 1)]
                       ELSE [i \in 1..n |-> min_frame + (i - 1)]

---------------------------------------------------------------------------
\* animations.rs

\* enum AnimationType, in declaration order (ordinal = index - 1).
AnimationTypeNames ==
    << "OnDefault", "OnPressQuack", "OnReleaseQuack", "OnStatic", "OnApproach",
       "OnDuckDeath", "Flying", "StartIdle", "Gliding", "StartGliding", "Idle",
       "OnRessurect" >>

\* AnimationType::from_u8 taking every byte for a kind.
AnimationType_from_u8_any(g) ==
    Some(AnimationTypeNames[(g % Len(AnimationTypeNames)) + 1])

\* AnimationType::from_u8.
AnimationType_from_u8(g) ==
    IF g \in 0..(Len(AnimationTypeNames) - 1) THEN Some(AnimationTypeNames[g + 1]) ELSE None

\* `anim_type as u8`.
AnimationType_as_u8(t) ==
    CHOOSE g \in 0..(Len(AnimationTypeNames) - 1) : AnimationTypeNames[g + 1] = t

\* Animation::new (the ui staging fields play no part in the codec).
Animation_new(anim_type, delay, looping, frames) ==
    [anim_type |-> anim_type, delay |-> delay, looping |-> looping, frames |-> frames]

\* `self.looping as u8`.
Bool_as_u8(b) == IF b THEN 1 ELSE 0

\* Animation::gen_metapixels panics exactly when is_range does.
Animation_gen_metapixels_panics(a) == is_range_panics(a.frames)

\* The AnimationFrame records of the loop `for frame in &self.frames`.
RECURSIVE PushFrames(_, _)
PushFrames(pixels, frames) ==
    IF frames = <<>> THEN pixels
    ELSE PushFrames(Metapixels_push(pixels, "AnimationFrame", U8(Head(frames)), 0),
                    Tail(frames))

\* Animation::gen_metapixels with the length test off by one (`len() > 2`).
Animation_gen_metapixels_len2(a) ==
    LET header ==
            Metapixel_new(MetapixelType_as_u8("AnimationType"),
                          AnimationType_as_u8(a.anim_type), 0)
            \o Metapixel_new(MetapixelType_as_u8("AnimationDelay"), U8(a.delay), 0)
            \o Metapixel_new(MetapixelType_as_u8("AnimationLoop"), Bool_as_u8(a.looping), 0)
    IN  IF is_range(a.frames) /\ Len(a.frames) > 2
        THEN Metapixels_push(header, "AnimationFramePeriod",
                             U8(a.frames[1]), U8(a.frames[Len(a.frames)]))
        ELSE PushFrames(header, a.frames)

\* Animation::gen_metapixels, for an animation on which it does not panic.
Animation_gen_metapixels(a) ==
    LET header ==
            Metapixel_new(MetapixelType_as_u8("AnimationType"),
                          AnimationType_as_u8(a.anim_type), 0)
            \o Metapixel_new(MetapixelType_as_u8("AnimationDelay"), U8(a.delay), 0)
            \o Metapixel_new(MetapixelType_as_u8("AnimationLoop"), Bool_as_u8(a.looping), 0)
    IN  IF is_range(a.frames) /\ Len(a.frames) > 1
        THEN Metapixels_push(header, "AnimationFramePeriod",
                             U8(a.frames[1]), U8(a.frames[Len(a.frames)]))
        ELSE PushFrames(header, a.frames)

---------------------------------------------------------------------------
\* hat_utils.rs: get_animation

\* `looping.g.max(1) == 0`.
LoopingOf(g) == (IF g > 1 THEN g ELSE 1) = 0

\* The g bytes of the longest prefix of AnimationFrame records
\* (take_while + map + collect).
RECURSIVE TakeFrames(_)
TakeFrames(ms) ==
    IF ms = <<>> \/ get_type(Head(ms)) # "AnimationFrame" THEN <<>>
    ELSE <<Head(ms).g>> \o TakeFrames(Tail(ms))

\* get_animation; `index` counts from 0 as in the source.
get_animation(metapixels, index) ==
    IF index + 4 > Len(metapixels) THEN None
    ELSE
        LET anim_type == metapixels[index + 1]
            delay == metapixels[index + 2]
            looping == metapixels[index + 3]
            frame_or_range == metapixels[index + 4]
        IN  IF ~(get_type(anim_type) = "AnimationType"
                 /\ get_type(delay) = "AnimationDelay"
                 /\ get_type(looping) = "AnimationLoop") THEN None
            ELSE IF get_type(frame_or_range) \notin {"AnimationFrame", "AnimationFramePeriod"}
            THEN None
            ELSE IF ~IsSome(AnimationType_from_u8(anim_type.g)) THEN None
            ELSE IF get_type(frame_or_range) = "AnimationFramePeriod"
            THEN Some(Animation_new(Unwrap(AnimationType_from_u8(anim_type.g)), delay.g,
                                    LoopingOf(looping.g),
                                    frames_from_range(frame_or_range.g, frame_or_range.b)))
            ELSE Some(Animation_new(Unwrap(AnimationType_from_u8(anim_type.g)), delay.g,
                                    LoopingOf(looping.g),
                                    TakeFrames(SubSeq(metapixels, index + 4, Len(metapixels)))))

---------------------------------------------------------------------------
\* hat_utils.rs: get_name_and_size

\* const SEPARATOR
SEPARATOR == "_"

Digits == <<"0", "1", "2", "3", "4", "5", "6", "7", "8", "9">>
DigitVal(c) == (CHOOSE i \in 1..10 : Digits[i] = c) - 1
IsDigit(c) == \E i \in 1..10 : Digits[i] = c

I32_MAX == 2147483647

\* The value of a string of decimal digits.
RECURSIVE DecimalValue(_)
DecimalValue(s) ==
    IF s = <<>> THEN 0 ELSE 10 * DecimalValue(SubSeq(s, 1, Len(s) - 1)) + DigitVal(s[Len(s)])

\* str::parse::<i32>: an optional sign, then one or more decimal digits, the
\* value within the i32 range; otherwise Err (None).
parse_i32(s) ==
    LET signed == s # <<>> /\ s[1] \in {"+", "-"}
        digits == IF signed THEN Tail(s) ELSE s
        value == IF signed /\ s[1] = "-" THEN -DecimalValue(digits) ELSE DecimalValue(digits)
    IN  IF digits = <<>> \/ \E i \in 1..Len(digits) : ~IsDigit(digits[i]) THEN None
        ELSE IF value > I32_MAX \/ value < -I32_MAX - 1 THEN None
        ELSE Some(value)

\* str::contains
contains(str, pat) ==
    \E i \in 0..(Len(str) - Len(pat)) : SubSeq(str, i + 1, i + Len(pat)) = pat

\* str::split(SEPARATOR): the segments between separators, empty ones included.
RECURSIVE split(_)
split(name) ==
    IF ~contains(name, <<SEPARATOR>>) THEN <<name>>
    ELSE LET i == CHOOSE k \in 1..Len(name) :
                      name[k] = SEPARATOR /\ \A j \in 1..(k - 1) : name[j] # SEPARATOR
         IN  <<SubSeq(name, 1, i - 1)>> \o split(SubSeq(name, i + 1, Len(name)))

\* Iterator::take(n)
take(seq, n) == SubSeq(seq, 1, IF Len(seq) < n THEN Len(seq) ELSE n)

\* HatNameAndSize::new
HatNameAndSize_new(name, size) == [name |-> name, size |-> size]

\* get_name_and_size
get_name_and_size(name) ==
    IF ~contains(name, <<SEPARATOR>>) THEN HatNameAndSize_new(name, None)
    ELSE
        LET parts == take(split(name), 3) IN
        IF Len(parts) # 3 THEN HatNameAndSize_new(name, None)
        ELSE
            LET size_x == parse_i32(parts[2])
                size_y == parse_i32(parts[3])
            IN  IF ~(IsSome(size_x) /\ IsSome(size_y)) THEN HatNameAndSize_new(name, None)
                ELSE IF Unwrap(size_x) <= 0 \/ Unwrap(size_y) <= 0
                THEN HatNameAndSize_new(name, None)
                ELSE [name |-> parts[1],
                      size |-> Some([x |-> Unwrap(size_x), y |-> Unwrap(size_y)])]

---------------------------------------------------------------------------
\* The name run: get_name_and_size is applied to a file stem.

\* Characters of the stems: a letter, two digits and the separator.
StemChars == {"a", "0", "1", SEPARATOR}
Stems == SeqsOf(StemChars, 0, MaxStemLen)

NameStart ==
    /\ stem \in Stems
    /\ parsed = HatNameAndSize_new(<<>>, None)
    /\ npc = "start"

\* The name parser at rest, in the specifications of the other components.
NameIdle ==
    /\ stem = <<>>
    /\ parsed = HatNameAndSize_new(<<>>, None)
    /\ npc = "idle"

\* get_name_and_size(&stem)
ParseName ==
    /\ npc = "start"
    /\ parsed' = get_name_and_size(stem)
    /\ npc' = "done"
    /\ UNCHANGED stem
    /\ UNCHANGED <<codecVars, readVars, saveVars, hatVars, wingsVars,
                   appVars, keyVars, rangeVars, petVars>>

---------------------------------------------------------------------------
\* The codec run: an Animation is encoded by gen_metapixels and the stream is
\* decoded by get_animation at index 0.

FrameValues == (0..MaxFrameValue) \cup {255}
DelayValues == {1, 4, 255}
AnimKinds == {AnimationTypeNames[i] : i \in 1..Len(AnimationTypeNames)}

Animations ==
    {Animation_new(k, d, l, f) :
        k \in AnimKinds, d \in DelayValues, l \in BOOLEAN,
        f \in SeqsOf(FrameValues, 0, MaxFrames)}

CodecStart ==
    /\ anim \in Animations
    /\ stream = <<>>
    /\ decoded = None
    /\ cpc = "start"

\* The codec at rest, in the specifications of the other components.
CodecIdle ==
    /\ anim = Animation_new("OnDefault", 4, FALSE, <<0>>)
    /\ stream = <<>>
    /\ decoded = None
    /\ cpc = "idle"

\* anim.gen_metapixels()
Encode ==
    /\ cpc = "start"
    /\ ~Animation_gen_metapixels_panics(anim)
    /\ stream' = Animation_gen_metapixels(anim)
    /\ cpc' = "encoded"
    /\ UNCHANGED <<anim, decoded>>
    /\ UNCHANGED <<nameVars, readVars, saveVars, hatVars, wingsVars,
                   appVars, keyVars, rangeVars, petVars>>

\* anim.gen_metapixels() on an animation that makes it panic
EncodePanic ==
    /\ cpc = "start"
    /\ Animation_gen_metapixels_panics(anim)
    /\ cpc' = "panic"
    /\ UNCHANGED <<anim, stream, decoded>>
    /\ UNCHANGED <<nameVars, readVars, saveVars, hatVars, wingsVars,
                   appVars, keyVars, rangeVars, petVars>>

\* get_animation(&stream, 0)
Decode ==
    /\ cpc = "encoded"
    /\ decoded' = get_animation(stream, 0)
    /\ cpc' = "decoded"
    /\ UNCHANGED <<anim, stream>>
    /\ UNCHANGED <<nameVars, readVars, saveVars, hatVars, wingsVars,
                   appVars, keyVars, rangeVars, petVars>>

\* The loaders' loop over the decoded list (hats.rs, the AnimationType arm):
\* an animation is pushed for every index holding an AnimationType record at
\* which get_animation returns Some.
RECURSIVE ExtractAnimationsFrom(_, _)
ExtractAnimationsFrom(metapixels, i) ==
    IF i >= Len(metapixels) THEN <<>>
    ELSE (IF get_type(metapixels[i + 1]) = "AnimationType"
          THEN get_animation(metapixels, i) ELSE <<>>)
         \o ExtractAnimationsFrom(metapixels, i + 1)
ExtractAnimations(metapixels) == ExtractAnimationsFrom(metapixels, 0)

---------------------------------------------------------------------------
\* The pixas bitmap, as hat_utils.rs and hats.rs use it.  A Bitmap is its
\* width, its height and its columns, left to right, each column its pixels
\* top to bottom.

\* Pixel::empty(): a fully transparent pixel.
Pixel_empty == [r |-> 0, g |-> 0, b |-> 0, a |-> 0]

\* Pixel::from_rgb: an opaque pixel.
Pixel_from_rgb(r, g, b) == [r |-> r, g |-> g, b |-> b, a |-> 255]

\* Pixel::is_empty
Pixel_is_empty(pixel) == pixel.a = 0

\* Bitmap::get_pixel: None outside the image.
Bitmap_get_pixel(bitmap, x, y) ==
    IF x \in 0..(bitmap.width - 1) /\ y \in 0..(bitmap.height - 1)
    THEN Some(bitmap.cols[x + 1][y + 1]) ELSE None

\* decimal digits of a natural number, and format!("{}", n) of an i32
RECURSIVE NatToDecimal(_)
NatToDecimal(n) ==
    IF n < 10 THEN <<Digits[n + 1]>> ELSE NatToDecimal(n \div 10) \o <<Digits[(n % 10) + 1]>>
ToDecimal(n) == IF n < 0 THEN <<"-">> \o NatToDecimal(-n) ELSE NatToDecimal(n)

---------------------------------------------------------------------------
\* hat_utils.rs: get_metapixels, get_metapixels_and_size

\* The body of the two loops of get_metapixels at step n of the column-major
\* walk `for x in 0..=metapixels_size.x { for y in 0..=metapixels_size.y`:
\* the record the pixel at (size.x + x, y) contributes, if any.
MetapixelAt_noOffset(bitmap, size, x, y) ==
    LET pixel == Bitmap_get_pixel(bitmap, x, y) IN
    IF ~IsSome(pixel) THEN <<>>
    ELSE IF Pixel_is_empty(Unwrap(pixel)) THEN <<>>
    ELSE Metapixel_new(Unwrap(pixel).r, Unwrap(pixel).g, Unwrap(pixel).b)

MetapixelAt(bitmap, size, x, y) ==
    LET pixel == Bitmap_get_pixel(bitmap, size.x + x, y) IN
    IF ~IsSome(pixel) THEN <<>>
    ELSE IF Pixel_is_empty(Unwrap(pixel)) THEN <<>>
    ELSE Metapixel_new(Unwrap(pixel).r, Unwrap(pixel).g, Unwrap(pixel).b)

RECURSIVE MetapixelWalk(_, _, _, _, _)
MetapixelWalk(bitmap, size, metapixels_size, x, y) ==
    IF x > metapixels_size.x THEN <<>>
    ELSE IF y > metapixels_size.y
    THEN MetapixelWalk(bitmap, size, metapixels_size, x + 1, 0)
    ELSE MetapixelAt(bitmap, size, x, y)
         \o MetapixelWalk(bitmap, size, metapixels_size, x, y + 1)

\* get_metapixels
get_metapixels(bitmap, size) ==
    LET metapixels_size == [x |-> bitmap.width - size.x, y |-> bitmap.height]
    IN  MetapixelWalk(bitmap, size, metapixels_size, 0, 0)

\* get_metapixels_and_size on the file at `path`: Err (None) when
\* Bitmap::from_path fails.
get_metapixels_and_size(path, name_and_size) ==
    IF ~IsSome(path.bitmap) THEN None
    ELSE
        LET bitmap == Unwrap(path.bitmap)
            size == IF IsSome(name_and_size.size) THEN Unwrap(name_and_size.size)
                    ELSE [x |-> bitmap.width, y |-> bitmap.height]
        IN  Some([metapixels |-> get_metapixels(bitmap, size), size |-> size])

---------------------------------------------------------------------------
\* The read run: an element file lies on disk, foreign pixels may be put into
\* its metapixel area, and get_metapixels_and_size reads it.

\* A bitmap with `w` art columns of one pixel value followed by the pixels of
\* `meta` laid out column by column, the last column filled up with empty pixels.
MakeBitmap(w, h, art, meta) ==
    LET k == (Len(meta) + h - 1) \div h
        at(n) == IF n <= Len(meta) THEN meta[n] ELSE Pixel_empty
    IN  [width |-> w + k, height |-> h,
         cols |-> [c \in 1..(w + k) |->
                    [r \in 1..h |-> IF c <= w THEN art ELSE at((c - w - 1) * h + r)]]]

\* The pixels of columns w.. of a bitmap, column by column.
ColumnMajor(bitmap, w) ==
    [n \in 1..((bitmap.width - w) * bitmap.height) |->
        bitmap.cols[w + 1 + ((n - 1) \div bitmap.height)][1 + ((n - 1) % bitmap.height)]]

\* name_w_h
SizedStem(name, w, h) == name \o <<SEPARATOR>> \o ToDecimal(w) \o <<SEPARATOR>> \o ToDecimal(h)

\* Pixels found in a metapixel area: empty and two records.  Art pixels: one
\* that looks like a record, one empty.
MetaPixels == {Pixel_empty, Pixel_from_rgb(3, 0, 0), Pixel_from_rgb(6, 1, 0)}
ArtPixels == {Pixel_from_rgb(3, 0, 0), Pixel_empty}
\* Pixels whose red channel is no opcode ordinal (24..255).
ForeignPixels == {Pixel_from_rgb(24, 3, 0), Pixel_from_rgb(255, 0, 0)}
ArtWidths == {1, 2}
ReadHeights == {1, 2}
ReadName == <<"a">>

ReadFiles ==
    UNION { UNION { UNION {
        {[stem |-> st, bitmap |-> Some(MakeBitmap(w, h, art, meta))] :
            st \in {SizedStem(ReadName, w, h), ReadName,
                    SizedStem(ReadName, w + (Len(meta) \div h) + 1, h)},
            art \in ArtPixels}
        : meta \in UNION {[1..(k * h) -> MetaPixels] : k \in 0..MaxMetaCols} }
        : h \in ReadHeights } : w \in ArtWidths }
    \cup {[stem |-> SizedStem(ReadName, 1, 1), bitmap |-> None]}

ReadStart ==
    /\ file \in ReadFiles
    /\ readres = None
    /\ inserted = FALSE
    /\ rpc = "start"

\* No element file is read, in the specifications of the other components.
ReadIdle ==
    /\ file = [stem |-> <<>>, bitmap |-> None]
    /\ readres = None
    /\ inserted = FALSE
    /\ rpc = "idle"

\* A pixel is inserted at position p of the metapixel area's pixel sequence
\* (the environment edits the PNG).
InsertPixel ==
    /\ rpc = "start"
    /\ ~inserted
    /\ IsSome(file.bitmap)
    /\ IsSome(get_name_and_size(file.stem).size)
    /\ LET bitmap == Unwrap(file.bitmap)
           w == Unwrap(get_name_and_size(file.stem).size).x
       IN  /\ w <= bitmap.width
           /\ \E pixel \in ForeignPixels :
              \E p \in 0..((bitmap.width - w) * bitmap.height) :
                LET S == ColumnMajor(bitmap, w)
                    S2 == SubSeq(S, 1, p) \o <<pixel>> \o SubSeq(S, p + 1, Len(S))
                    art == [width |-> w, height |-> bitmap.height,
                            cols |-> SubSeq(bitmap.cols, 1, w)]
                    area == MakeBitmap(0, bitmap.height, Pixel_empty, S2)
                IN  file' = [file EXCEPT !.bitmap =
                                Some([width |-> w + area.width, height |-> bitmap.height,
                                      cols |-> art.cols \o area.cols])]
    /\ inserted' = TRUE
    /\ UNCHANGED <<readres, rpc>>
    /\ UNCHANGED <<codecVars, nameVars, saveVars, hatVars, wingsVars,
                   appVars, keyVars, rangeVars, petVars>>

\* get_metapixels_and_size(path, &get_name_and_size(stem)), as the loaders call it
ReadFile ==
    /\ rpc = "start"
    /\ readres' = get_metapixels_and_size(file, get_name_and_size(file.stem))
    /\ rpc' = "read"
    /\ UNCHANGED <<file, inserted>>
    /\ UNCHANGED <<codecVars, nameVars, saveVars, hatVars, wingsVars,
                   appVars, keyVars, rangeVars, petVars>>

---------------------------------------------------------------------------
\* hats.rs: gen_metapixels of the element kinds, insert_metapixels, SaveHat::save

\* HatType::save_name
save_name(hat_type) ==
    CASE hat_type = "Wereable" -> <<"h", "a", "t">>
      [] hat_type = "Wings" -> <<"w", "i", "n", "g", "s">>
      [] hat_type = "Extra" -> <<"e", "x", "t", "r", "a", "h", "a", "t">>
      [] hat_type = "FlyingPet" -> <<"f", "l", "y", "i", "n", "g", "p", "e", "t">>
      [] hat_type = "WalkingPet" -> <<"w", "a", "l", "k", "i", "n", "g", "p", "e", "t">>
      [] hat_type = "Room" -> <<"r", "o", "o", "m">>
      [] hat_type = "Preview" -> <<"p", "r", "e", "v", "i", "e", "w">>
      [] OTHER -> <<>>

\* enum LinkFrameState, in declaration order.
LinkFrameStateNames == <<"Default", "Saved", "Inverted">>
LinkFrameState_as_u8(l) == (CHOOSE i \in 1..3 : LinkFrameStateNames[i] = l) - 1

\* The loop `for anim in &self.animations { for pixel in anim.borrow().gen_metapixels()`.
RECURSIVE PushAnimations(_, _)
PushAnimations(pixels, animations) ==
    IF animations = <<>> THEN pixels
    ELSE PushAnimations(pixels \o Animation_gen_metapixels(Head(animations)), Tail(animations))

\* <Wereable as GenMetapixels>::gen_metapixels
Wereable_gen_metapixels(hat) ==
    LET p1 == IF hat.strapped_on THEN Metapixels_push(<<>>, "StrappedOn", 0, 0) ELSE <<>>
        p2 == IF hat.frame_size.x > 32 \/ hat.frame_size.y > 32
              THEN Metapixels_push(p1, "IsBigHat", 0, 0) ELSE p1
        p3 == Metapixels_push(p2, "FrameSize", U8(hat.frame_size.x), U8(hat.frame_size.y))
        p4 == IF IsSome(hat.on_spawn_animation)
              THEN Metapixels_push(p3, "OnSpawnAnimation",
                                   AnimationType_as_u8(Unwrap(hat.on_spawn_animation)), 0)
              ELSE p3
        p5 == IF hat.link_frame_state # "Default"
              THEN Metapixels_push(p4, "LinkFrameState",
                                   LinkFrameState_as_u8(hat.link_frame_state), 0)
              ELSE p4
    IN  PushAnimations(p5, hat.animations)

\* <Extra as GenMetapixels>::gen_metapixels
Extra_gen_metapixels(hat) ==
    Metapixels_push(<<>>, "FrameSize", U8(hat.frame_size.x), U8(hat.frame_size.y))

\* DEFAULT_PET_SPEED, DEFAULT_PET_DISTANCE
DEFAULT_PET_SPEED == 10
DEFAULT_PET_DISTANCE == 10

\* `if cond { metapixels.push(pixel_type, g, b) }`
PushIf(cond, pixels, pixel_type, g, b) ==
    IF cond THEN Metapixels_push(pixels, pixel_type, g, b) ELSE pixels

\* <WalkingPet as GenMetapixels>::gen_metapixels up to the loop over the
\* animations; <FlyingPet as GenMetapixels>::gen_metapixels begins the same.
PetBase_gen_metapixels(hat) ==
    PushIf(hat.link_frame_state # "Default",
        Metapixels_push(
            PushIf(hat.frame_size.x > 32 \/ hat.frame_size.y > 32,
                PushIf(hat.flipped,
                    PushIf(hat.distance # DEFAULT_PET_DISTANCE, <<>>,
                           "PetDistance", U8(hat.distance), 0),
                    "PetNoFlip", 0, 0),
                "IsBigHat", 0, 0),
            "FrameSize", U8(hat.frame_size.x), U8(hat.frame_size.y)),
        "LinkFrameState", LinkFrameState_as_u8(hat.link_frame_state), 0)

\* <WalkingPet as GenMetapixels>::gen_metapixels
WalkingPet_gen_metapixels(hat) == PushAnimations(PetBase_gen_metapixels(hat), hat.animations)

\* <FlyingPet as GenMetapixels>::gen_metapixels
FlyingPet_gen_metapixels(hat) ==
    PushAnimations(
        PushIf(hat.speed # DEFAULT_PET_SPEED,
            PushIf(hat.changes_angle, PetBase_gen_metapixels(hat), "PetChangesAngle", 0, 0),
            "PetSpeed", U8(hat.speed), 0),
        hat.animations)

\* <Box<dyn AbstractHat> as GenMetapixels>::gen_metapixels panics when the
\* gen_metapixels of one of the element's animations does.
gen_metapixels_panics(hat) ==
    /\ hat.hat_type \in {"Wereable", "WalkingPet", "FlyingPet"}
    /\ \E i \in 1..Len(hat.animations) : Animation_gen_metapixels_panics(hat.animations[i])

\* <Box<dyn AbstractHat> as GenMetapixels>::gen_metapixels: the dispatch on
\* hat_type (RoomHat and Preview return vec![]).
gen_metapixels(hat) ==
    CASE hat.hat_type = "Wereable" -> Wereable_gen_metapixels(hat)
      [] hat.hat_type = "Extra" -> Extra_gen_metapixels(hat)
      [] hat.hat_type = "WalkingPet" -> WalkingPet_gen_metapixels(hat)
      [] hat.hat_type = "FlyingPet" -> FlyingPet_gen_metapixels(hat)
      [] hat.hat_type \in {"Room", "Preview"} -> <<>>

\* Bitmap::set_pixel inside the image.  What pixas does with a position outside
\* the image is not decided by this repository: the write is recorded in `oob`.
Bitmap_set_pixel(bitmap, x, y, pixel) ==
    IF x \in 0..(bitmap.width - 1) /\ y \in 0..(bitmap.height - 1)
    THEN [bitmap EXCEPT !.cols[x + 1][y + 1] = pixel] ELSE bitmap

\* insert_metapixels: the inner loop `while y != bitmap.height`, from row y of
\* column x with `rest` left in pixel_iter.
RECURSIVE InsertColumn(_, _, _, _, _)
InsertColumn(bitmap, x, y, rest, oob) ==
    IF y = bitmap.height \/ rest = <<>>
    THEN [bitmap |-> bitmap, y |-> y, rest |-> rest, oob |-> oob]
    ELSE
        LET pixel == Pixel_from_rgb(Head(rest).r, Head(rest).g, Head(rest).b)
            skip == Tail(rest) # <<>> /\ get_type(Head(Tail(rest))) = "AnimationType"
        IN  InsertColumn(Bitmap_set_pixel(bitmap, x, y, pixel), x,
                         IF skip THEN y + 2 ELSE y + 1, Tail(rest),
                         oob \/ y > bitmap.height - 1)

\* insert_metapixels: the outer loop `while x != bitmap.width`; y is not reset
\* between columns.
RECURSIVE InsertColumns(_, _, _, _, _)
InsertColumns(bitmap, x, y, rest, oob) ==
    IF x = bitmap.width THEN [bitmap |-> bitmap, rest |-> rest, oob |-> oob]
    ELSE LET c == InsertColumn(bitmap, x, y, rest, oob)
         IN  InsertColumns(c.bitmap, x + 1, c.y, c.rest, c.oob)

\* insert_metapixels
insert_metapixels(bitmap, pixels, hat_area_size) ==
    InsertColumns(bitmap, hat_area_size.x, 0, pixels, FALSE)

\* The image SaveHat::save builds before insert_metapixels: Bitmap::with_size,
\* draw_from(hat_bitmap, 0, 0), then the rectangle right of the art area emptied.
final_image_of(hat_bitmap, area_size, count) ==
    LET rows_amount == (count + hat_bitmap.height - 1) \div hat_bitmap.height
        width == rows_amount + area_size.x
    IN  [width |-> width, height |-> hat_bitmap.height,
         cols |-> [c \in 1..width |-> [r \in 1..hat_bitmap.height |->
                    IF c <= area_size.x /\ c <= hat_bitmap.width
                    THEN hat_bitmap.cols[c][r] ELSE Pixel_empty]]]

\* The stem of the file SaveHat::save writes.
save_file_stem(hat, metapixels) ==
    LET name == IF IsSome(hat.name) THEN Unwrap(hat.name) ELSE save_name(hat.hat_type)
    IN  IF metapixels # <<>>
        THEN SizedStem(name, hat.hat_area_size.x, hat.hat_area_size.y)
        ELSE name

\* SaveHat::save, gen_metapixels not panicking.  `oob_panics` is what pixas does
\* with a set_pixel outside the image: panic, or leave the image as it is.
\* `write_ok` is whether final_image.save writes the file: its error is dropped
\* by `.ok()` and Ok(()) is returned without a file.
SaveHat_save(hat, oob_panics, write_ok) ==
    LET metapixels == gen_metapixels(hat)
        stem_ == save_file_stem(hat, metapixels)
    IN  IF ~IsSome(hat.bitmap) THEN [result |-> "err", file |-> None]
        ELSE
            LET ins == insert_metapixels(
                           final_image_of(Unwrap(hat.bitmap), hat.hat_area_size,
                                          Len(metapixels)),
                           metapixels, hat.hat_area_size)
            IN  IF ins.oob /\ oob_panics THEN [result |-> "panic", file |-> None]
                ELSE IF ~write_ok THEN [result |-> "ok", file |-> None]
                ELSE [result |-> "ok",
                      file |-> Some([stem |-> stem_, bitmap |-> Some(ins.bitmap)])]

\* Hat::save: the loops `element.save(path)?` over the elements left, `files`
\* written so far; the first error (or panic) ends the save.
RECURSIVE SaveElementsOf(_, _, _, _)
SaveElementsOf(elements, oob_panics, write_ok, files) ==
    IF elements = <<>> THEN [result |-> "ok", files |-> files]
    ELSE IF gen_metapixels_panics(Head(elements)) THEN [result |-> "panic", files |-> files]
    ELSE LET r == SaveHat_save(Head(elements), oob_panics, write_ok)
         IN  IF r.result # "ok" THEN [result |-> r.result, files |-> files]
             ELSE SaveElementsOf(Tail(elements), oob_panics, write_ok, files \o r.file)

\* Hat::save on a bundle with these elements (unique_elemets.values(), then
\* pets): remove_dir_all and create_dir return their errors.
Hat_save(elements, remove_ok, create_ok, oob_panics, write_ok) ==
    IF ~remove_ok \/ ~create_ok THEN [result |-> "err", files |-> <<>>]
    ELSE SaveElementsOf(elements, oob_panics, write_ok, <<>>)

---------------------------------------------------------------------------
\* The save run: SaveHat::save writes an element's file, and the file is read
\* back as the loaders read it.

SaveAnimations ==
    {Animation_new("OnDefault", 4, FALSE, f) : f \in {<<>>, <<0>>, <<0, 2>>, <<0, 1>>}}

\* An element: the HatBase fields and the Wereable fields save reads.
Element(hat_type, name, w, h, bitmap, strapped_on, animations) ==
    [hat_type |-> hat_type, name |-> name, hat_area_size |-> [x |-> w, y |-> h],
     bitmap |-> bitmap, frame_size |-> [x |-> 32, y |-> 32],
     strapped_on |-> strapped_on, on_spawn_animation |-> None,
     link_frame_state |-> "Default", animations |-> animations]

SaveElements ==
    UNION { UNION {
        {Element("Wereable", name, w, h, bitmap, strapped_on, animations) :
            name \in {None, Some(<<"a">>)},
            bitmap \in {None, Some(MakeBitmap(w, h, Pixel_from_rgb(3, 0, 0),
                                              [n \in 1..h |-> Pixel_from_rgb(6, 1, 0)]))},
            strapped_on \in BOOLEAN,
            animations \in SeqsOf(SaveAnimations, 0, MaxAnims)}
        \cup
        {Element(hat_type, None, w, h,
                 Some(MakeBitmap(w, h, Pixel_from_rgb(3, 0, 0),
                                 [n \in 1..h |-> Pixel_from_rgb(6, 1, 0)])), FALSE, <<>>) :
            hat_type \in {"Extra", "Room", "Preview"}}
        : h \in 1..MaxHeight } : w \in ArtWidths }

SaveStart ==
    /\ elem \in SaveElements
    /\ saved = [result |-> "none", file |-> None]
    /\ readback = None
    /\ spc = "start"

\* Nothing is saved, in the specifications of the other components.
SaveIdle ==
    /\ elem = Element("Room", None, 1, 1, None, FALSE, <<>>)
    /\ saved = [result |-> "none", file |-> None]
    /\ readback = None
    /\ spc = "idle"

\* element.save(path)
Save ==
    /\ spc = "start"
    /\ IF gen_metapixels_panics(elem)
       THEN saved' = [result |-> "panic", file |-> None]
       ELSE \E oob_panics, write_ok \in BOOLEAN :
               saved' = SaveHat_save(elem, oob_panics, write_ok)
    /\ spc' = "saved"
    /\ UNCHANGED <<elem, readback>>
    /\ UNCHANGED <<codecVars, nameVars, readVars, hatVars, wingsVars,
                   appVars, keyVars, rangeVars, petVars>>

\* The written file is read back: get_name_and_size on its stem, then
\* get_metapixels_and_size.
ReadBack ==
    /\ spc = "saved"
    /\ saved.result = "ok" /\ IsSome(saved.file)
    /\ readback' = get_metapixels_and_size(Unwrap(saved.file),
                                           get_name_and_size(Unwrap(saved.file).stem))
    /\ spc' = "read"
    /\ UNCHANGED <<elem, saved>>
    /\ UNCHANGED <<codecVars, nameVars, readVars, hatVars, wingsVars,
                   appVars, keyVars, rangeVars, petVars>>

\* hat.save(dir_path), the bundle holding the one element.
HatSave ==
    /\ spc = "start"
    /\ \E remove_ok, create_ok, oob_panics, write_ok \in BOOLEAN :
        LET r == Hat_save(<<elem>>, remove_ok, create_ok, oob_panics, write_ok)
        IN  saved' = [result |-> r.result,
                      file |-> IF r.files = <<>> THEN None ELSE Some(r.files[1])]
    /\ spc' = "hat_saved"
    /\ UNCHANGED <<elem, readback>>
    /\ UNCHANGED <<codecVars, nameVars, readVars, hatVars, wingsVars,
                   appVars, keyVars, rangeVars, petVars>>

---------------------------------------------------------------------------
\* hats.rs: the id registry, the Hat bundle and Hat::load;
\* animations.rs: Frame and the frame id registry

MAX_PETS == 5

\* enum HatType, without Unspecified.
HatTypes == {"Wereable", "Wings", "Extra", "FlyingPet", "WalkingPet", "Room", "Preview"}

\* hat_id with HAT_ID_COUNTER doing no step.
hat_id_stuck(counter) == [id |-> counter, counter |-> counter]

\* hat_id: returns the counter and stores its successor.  The counter is a
\* u32; `id + 1` leaves its range only after 2^32 calls, which no run here
\* reaches (edits is bounded by MaxEdits).
hat_id(counter) == [id |-> counter, counter |-> counter + 1]

\* frame_id: as hat_id, on FRAME_ID_COUNTER.
frame_id(counter) == [id |-> counter, counter |-> counter + 1]

\* Frame::new, From<i32> for Frame: the value with a fresh id.
Frame_new(value, counter) ==
    [frame |-> [value |-> value, id |-> frame_id(counter).id],
     counter |-> frame_id(counter).counter]

\* <Frame as Clone>::clone: the value of the original with a fresh id.
Frame_clone(frame, counter) ==
    [frame |-> [value |-> frame.value, id |-> frame_id(counter).id],
     counter |-> frame_id(counter).counter]

\* Hat::new
Hat_new == [unique_elemets |-> [k \in {} |-> 0], pets |-> <<>>]

\* Hat::can_add_pets
can_add_pets(h) == Len(h.pets) < MAX_PETS

\* Hat::add_pet
add_pet(h, element) == [h EXCEPT !.pets = Append(@, element)]

\* Hat::add_unique_hat (HashMap::insert: an entry under the key is replaced).
add_unique_hat(h, hat_type, element) ==
    [h EXCEPT !.unique_elemets =
        [k \in (DOMAIN @) \cup {hat_type} |-> IF k = hat_type THEN element ELSE @[k]]]

\* Hat::add_element sending only WalkingPet to the pets.
add_element_walking_only(h, element) ==
    IF element.hat_type = "WalkingPet"
    THEN add_pet(h, element)
    ELSE add_unique_hat(h, element.hat_type, element)

\* Hat::add_element
add_element(h, element) ==
    IF element.hat_type \in {"WalkingPet", "FlyingPet"}
    THEN add_pet(h, element)
    ELSE add_unique_hat(h, element.hat_type, element)

\* Hat::remove_element
remove_element(h, id) ==
    [unique_elemets |->
        [k \in {j \in DOMAIN h.unique_elemets : h.unique_elemets[j].id # id}
            |-> h.unique_elemets[k]],
     pets |-> SelectSeq(h.pets, LAMBDA e : e.id # id)]

\* Hat::replace_element without the remove_element call.
replace_element_no_remove(h, id, element) == add_element(h, element)

\* Hat::replace_element
replace_element(h, id, element) == add_element(remove_element(h, id), element)

\* Hat::iter_all_elements, as the set of the elements.
iter_all_elements(h) ==
    {h.unique_elemets[k] : k \in DOMAIN h.unique_elemets}
        \cup {h.pets[i] : i \in 1..Len(h.pets)}

\* str::to_lowercase, on the letters file names have here.
to_lowercase(str) ==
    [i \in 1..Len(str) |->
        CASE str[i] = "H" -> "h" [] str[i] = "W" -> "w" [] OTHER -> str[i]]

\* Hat::load: the arm of `match name_lowercase.as_str()` taken, as the kind of
\* the element the arm loads; None for the `_ => {}` arm.
load_arm(name_lowercase) ==
    CASE name_lowercase = save_name("Room") -> Some("Room")
      [] name_lowercase = save_name("Extra") -> Some("Extra")
      [] name_lowercase = save_name("Wings") -> Some("Wings")
      [] contains(name_lowercase, save_name("FlyingPet")) -> Some("FlyingPet")
      [] contains(name_lowercase, save_name("WalkingPet")) -> Some("WalkingPet")
      [] name_lowercase = save_name("Preview") -> Some("Preview")
      [] name_lowercase = save_name("Wereable") -> Some("Wereable")
      [] OTHER -> None

\* <kind>::load_from_name_and_size: Err for a file that cannot be read (no id
\* is drawn), otherwise the element of that kind with a fresh id.
load_from_name_and_size(hat_type, entry, counter) ==
    IF ~entry.readable THEN [element |-> None, counter |-> counter]
    ELSE [element |-> Some([hat_type |-> hat_type, id |-> hat_id(counter).id]),
          counter |-> hat_id(counter).counter]

\* Hat::load: the body of `for entry in read_dir(path)`, over the entries left.
RECURSIVE LoadEntries(_, _, _)
LoadEntries(h, counter, entries) ==
    IF entries = <<>> THEN [hat |-> h, counter |-> counter]
    ELSE
        LET entry == Head(entries)
            arm == load_arm(to_lowercase(get_name_and_size(entry.stem).name))
        IN  IF ~IsSome(arm) THEN LoadEntries(h, counter, Tail(entries))
            ELSE
                LET l == load_from_name_and_size(Unwrap(arm), entry, counter)
                IN  IF ~IsSome(l.element) THEN LoadEntries(h, counter, Tail(entries))
                    ELSE IF Unwrap(arm) \in {"FlyingPet", "WalkingPet"}
                    THEN LoadEntries(add_pet(h, Unwrap(l.element)), l.counter, Tail(entries))
                    ELSE LoadEntries(add_unique_hat(h, Unwrap(arm), Unwrap(l.element)),
                                     l.counter, Tail(entries))

\* Hat::load: Err (None) when the path does not exist.
Hat_load(dir, counter) ==
    IF ~IsSome(dir) THEN [hat |-> None, counter |-> counter]
    ELSE LET l == LoadEntries(Hat_new, counter, Unwrap(dir))
         IN  [hat |-> Some(l.hat), counter |-> l.counter]

---------------------------------------------------------------------------
\* The bundle run: a directory is loaded with Hat::load, then the bundle and
\* the frame list of an animation are edited.

\* A file of a directory: its stem, and whether its image can be read.
DirFile(stem_, readable) == [stem |-> stem_, readable |-> readable]

PetFiles ==
    << DirFile(save_name("FlyingPet"), TRUE),
       DirFile(save_name("WalkingPet"), TRUE),
       DirFile(<<"a">> \o save_name("FlyingPet"), TRUE),
       DirFile(SizedStem(save_name("FlyingPet"), 1, 1), TRUE),
       DirFile(<<"W">> \o Tail(save_name("WalkingPet")), TRUE),
       DirFile(<<"a">> \o save_name("WalkingPet"), TRUE) >>

UniqueFiles ==
    << DirFile(save_name("Wereable"), TRUE),
       DirFile(<<"H">> \o Tail(save_name("Wereable")), TRUE),
       DirFile(save_name("Wings"), FALSE),
       DirFile(SizedStem(save_name("Wings"), 1, 1), TRUE),
       DirFile(save_name("Room"), TRUE),
       DirFile(save_name("Extra"), TRUE),
       DirFile(<<"a">>, TRUE),
       DirFile(save_name("Preview"), TRUE) >>

\* The directories loaded: a missing one (None), or the first n pet files and
\* the first m other files.
Directories ==
    {None} \cup
    {Some(SubSeq(PetFiles, 1, n) \o SubSeq(UniqueFiles, 1, m)) :
        n \in {0, MAX_PETS - 1, MAX_PETS, Len(PetFiles)},
        m \in {0, 2, 4, Len(UniqueFiles)}}

HatStart ==
    /\ directory \in Directories
    /\ bundle = Hat_new
    /\ HAT_ID_COUNTER = 0
    /\ FRAME_ID_COUNTER = 0
    /\ anim_frames = <<>>
    /\ edits = 0
    /\ hpc = "start"

\* No bundle is loaded, in the specifications of the other components.
HatIdle ==
    /\ directory = None
    /\ bundle = Hat_new
    /\ HAT_ID_COUNTER = 0
    /\ FRAME_ID_COUNTER = 0
    /\ anim_frames = <<>>
    /\ edits = 0
    /\ hpc = "idle"

\* Hat::load(directory)
Load ==
    /\ hpc = "start"
    /\ LET l == Hat_load(directory, HAT_ID_COUNTER)
       IN  /\ HAT_ID_COUNTER' = l.counter
           /\ IF IsSome(l.hat)
              THEN bundle' = Unwrap(l.hat) /\ hpc' = "loaded"
              ELSE bundle' = bundle /\ hpc' = "failed"
    /\ UNCHANGED <<directory, FRAME_ID_COUNTER, anim_frames, edits>>
    /\ UNCHANGED <<codecVars, nameVars, readVars, saveVars, wingsVars,
                   appVars, keyVars, rangeVars, petVars>>

\* <kind>::load_from_path on a readable file.
load_from_path(hat_type, counter) ==
    load_from_name_and_size(hat_type, DirFile(save_name(hat_type), TRUE), counter)

\* One more operation on the loaded bundle; `h` is the bundle after it.
EditBundle(h, counter) ==
    /\ bundle' = h
    /\ HAT_ID_COUNTER' = counter
    /\ edits' = edits + 1
    /\ UNCHANGED <<directory, FRAME_ID_COUNTER, anim_frames, hpc>>
    /\ UNCHANGED <<codecVars, nameVars, readVars, saveVars, wingsVars,
                   appVars, keyVars, rangeVars, petVars>>

\* hat.add_element(element), the element just loaded from a file.
AddElement ==
    /\ hpc = "loaded" /\ edits < MaxEdits
    /\ \E hat_type \in HatTypes :
        LET l == load_from_path(hat_type, HAT_ID_COUNTER)
        IN  EditBundle(add_element(bundle, Unwrap(l.element)), l.counter)

\* draw_elements_menu, try_add_hat!: offered while the bundle has no element
\* of the kind.
MenuAddUnique ==
    /\ hpc = "loaded" /\ edits < MaxEdits
    /\ \E hat_type \in {"Wereable", "Wings", "Extra", "Preview"} :
        /\ hat_type \notin DOMAIN bundle.unique_elemets
        /\ LET l == load_from_path(hat_type, HAT_ID_COUNTER)
           IN  EditBundle(add_unique_hat(bundle, hat_type, Unwrap(l.element)), l.counter)

\* draw_elements_menu, the pet buttons: shown without a preview, enabled while
\* can_add_pets().
MenuAddPet ==
    /\ hpc = "loaded" /\ edits < MaxEdits
    /\ "Preview" \notin DOMAIN bundle.unique_elemets
    /\ can_add_pets(bundle)
    /\ \E hat_type \in {"FlyingPet", "WalkingPet"} :
        LET l == load_from_path(hat_type, HAT_ID_COUNTER)
        IN  EditBundle(add_pet(bundle, Unwrap(l.element)), l.counter)

\* hat.remove_element(id)
RemoveElement ==
    /\ hpc = "loaded" /\ edits < MaxEdits
    /\ \E e \in iter_all_elements(bundle) :
        EditBundle(remove_element(bundle, e.id), HAT_ID_COUNTER)

\* hat.replace_element(id, new_hat), new_hat just loaded from a file.
ReplaceElement ==
    /\ hpc = "loaded" /\ edits < MaxEdits
    /\ \E e \in iter_all_elements(bundle), hat_type \in HatTypes :
        LET l == load_from_path(hat_type, HAT_ID_COUNTER)
        IN  EditBundle(replace_element(bundle, e.id, Unwrap(l.element)), l.counter)

\* One more operation on the frame list; `fs` is the list after it.
EditFrames(fs, counter) ==
    /\ anim_frames' = fs
    /\ FRAME_ID_COUNTER' = counter
    /\ edits' = edits + 1
    /\ UNCHANGED <<directory, bundle, HAT_ID_COUNTER, hpc>>
    /\ UNCHANGED <<codecVars, nameVars, readVars, saveVars, wingsVars,
                   appVars, keyVars, rangeVars, petVars>>

\* "Add Frame": anim.frames.push(frame.into())
AddFrame ==
    /\ hpc = "loaded" /\ edits < MaxEdits
    /\ \E value \in {0, 1} :
        LET f == Frame_new(value, FRAME_ID_COUNTER)
        IN  EditFrames(Append(anim_frames, f.frame), f.counter)

\* add_frame_index: anim.frames.insert(index, anim.frames[index].clone())
CloneFrame ==
    /\ hpc = "loaded" /\ edits < MaxEdits
    /\ \E index \in 1..Len(anim_frames) :
        LET f == Frame_clone(anim_frames[index], FRAME_ID_COUNTER)
        IN  EditFrames(SubSeq(anim_frames, 1, index - 1) \o <<f.frame>>
                           \o SubSeq(anim_frames, index, Len(anim_frames)),
                       f.counter)

\* delete_frame_index: anim.frames.remove(index)
DeleteFrame ==
    /\ hpc = "loaded" /\ edits < MaxEdits
    /\ \E index \in 1..Len(anim_frames) :
        EditFrames(SubSeq(anim_frames, 1, index - 1)
                       \o SubSeq(anim_frames, index + 1, Len(anim_frames)),
                   FRAME_ID_COUNTER)

---------------------------------------------------------------------------
\* hats.rs: frames_amount, Wings::load_from_name_and_size, Wings::gen_metapixels

MIN_FRAME_SIZE == 32
DEFAULT_WINGS_IDLE_FRAME == 0
DEFAULT_AUTO_SPEED == 4

\* AbstractHat::frames_amount divides by frame_size.x and frame_size.y: an
\* integer division by zero panics.
frames_amount_panics(hat) == hat.frame_size.x = 0 \/ hat.frame_size.y = 0

\* AbstractHat::frames_amount, the divisors not zero.
frames_amount(hat) ==
    LET frames_x == (IF IsSome(hat.texture) THEN Unwrap(hat.texture).width ELSE 0)
                        \div hat.frame_size.x
        frames_y == (IF IsSome(hat.texture) THEN Unwrap(hat.texture).height ELSE 0)
                        \div hat.frame_size.y
    IN  frames_x * frames_y

\* u8::saturating_add(1), u8::saturating_sub(1)
saturating_add_1(x) == IF x + 1 > 255 THEN 255 ELSE x + 1
saturating_sub_1(x) == IF x - 1 < 0 THEN 0 ELSE x - 1

\* Wings { base: HatBase { frame_size: (MIN_FRAME_SIZE, MIN_FRAME_SIZE), texture,
\* .. }, ..Default::default() }
Wings_default(texture) ==
    [general_offset |-> [x |-> 128, y |-> 128], crouch_offset |-> [x |-> 128, y |-> 128],
     ragdoll_offset |-> [x |-> 128, y |-> 128], slide_offset |-> [x |-> 128, y |-> 128],
     net_offset |-> [x |-> 128, y |-> 128],
     gen_animations |-> FALSE, auto_glide_frame |-> 0, auto_idle_frame |-> 0,
     auto_anim_speed |-> 0, changes_animations |-> FALSE, size_state |-> FALSE,
     frame_size |-> [x |-> MIN_FRAME_SIZE, y |-> MIN_FRAME_SIZE],
     texture |-> texture, animations |-> <<>>]

\* Wings::load_from_name_and_size: the loop `for pixel in metapixels`.
RECURSIVE WingsLoadPixels(_, _)
WingsLoadPixels(hat, pixels) ==
    IF pixels = <<>> THEN hat
    ELSE
        LET pixel == Head(pixels)
            t == get_type(pixel)
            offset == [x |-> pixel.g - 128, y |-> pixel.b - 128]
            next ==
                CASE t = "WingsNetOffset" -> [hat EXCEPT !.net_offset = offset]
                  [] t = "WingsGeneralOffset" -> [hat EXCEPT !.general_offset = offset]
                  [] t = "WingsSlideOffset" -> [hat EXCEPT !.slide_offset = offset]
                  [] t = "WingsRagdollOffset" -> [hat EXCEPT !.ragdoll_offset = offset]
                  [] t = "WingsCrouchOffset" -> [hat EXCEPT !.crouch_offset = offset]
                  [] t = "GenerateWingsAnimations" -> [hat EXCEPT !.gen_animations = TRUE]
                  [] t = "WingsAutoGlideFrame" ->
                         [hat EXCEPT !.auto_glide_frame = saturating_add_1(pixel.g)]
                  [] t = "WingsAutoIdleFrame" ->
                         [hat EXCEPT !.auto_idle_frame = saturating_add_1(pixel.g)]
                  [] t = "WingsAutoAnimationsSpeed" ->
                         [hat EXCEPT !.auto_anim_speed = pixel.g]
                  [] t = "FrameSize" ->
                         [hat EXCEPT !.frame_size = [x |-> pixel.g, y |-> pixel.b]]
                  [] t = "ChangeAnimationsEveryLevel" ->
                         [hat EXCEPT !.changes_animations = TRUE]
                  [] t = "IsBigHat" -> [hat EXCEPT !.size_state = TRUE]
                  [] OTHER -> hat
        IN  WingsLoadPixels(next, Tail(pixels))

\* Wings::load_from_name_and_size on a readable file with these metapixels and
\* this texture: the Wings, or a panic in the frames_amount() call after the
\* loop (the one before it divides by MIN_FRAME_SIZE).
Wings_load(metapixels, texture) ==
    LET hat0 == Wings_default(texture)
        hat1 == [hat0 EXCEPT !.auto_glide_frame = frames_amount(hat0),
                             !.auto_idle_frame = DEFAULT_WINGS_IDLE_FRAME]
        hat2 == WingsLoadPixels(hat1, metapixels)
        has_auto_speed == \E i \in 1..Len(metapixels) :
                              get_type(metapixels[i]) = "WingsAutoAnimationsSpeed"
        hat3 == [hat2 EXCEPT !.auto_anim_speed =
                                 IF has_auto_speed THEN @ ELSE DEFAULT_AUTO_SPEED]
    IN  IF frames_amount_panics(hat3) THEN [result |-> "panic", hat |-> None]
        ELSE [result |-> "ok",
              hat |-> Some([hat3 EXCEPT !.animations =
                  <<Animation_new("OnDefault", hat3.auto_anim_speed, FALSE,
                                  frames_from_range(0, frames_amount(hat3) - 1))>>])]

\* The record an offset is written as: `offset.x as u8`, `offset.y as u8`.
WingsOffsetPixel(pixels, emit, pixel_type, offset) ==
    IF emit THEN Metapixels_push(pixels, pixel_type, U8(offset.x), U8(offset.y)) ELSE pixels

\* <Wings as GenMetapixels>::gen_metapixels (frame_size without a zero: the
\* frames_amount() call does not panic).
Wings_gen_metapixels(hat) ==
    LET p1 == WingsOffsetPixel(<<>>, hat.general_offset.x # 128 \/ hat.general_offset.y # 128,
                               "WingsGeneralOffset", hat.general_offset)
        p2 == WingsOffsetPixel(p1, hat.slide_offset.x # 128 \/ hat.slide_offset.y # 128,
                               "WingsSlideOffset", hat.slide_offset)
        p3 == WingsOffsetPixel(p2, hat.ragdoll_offset.x # 128 \/ hat.ragdoll_offset.y # 128,
                               "WingsRagdollOffset", hat.ragdoll_offset)
        p4 == WingsOffsetPixel(p3, hat.crouch_offset.x # 128 \/ hat.net_offset.y # 128,
                               "WingsCrouchOffset", hat.crouch_offset)
        p5 == WingsOffsetPixel(p4, hat.net_offset.x # 128 \/ hat.net_offset.y # 128,
                               "WingsNetOffset", hat.net_offset)
        p6 == IF hat.frame_size.x > 32 \/ hat.frame_size.y > 32
              THEN Metapixels_push(p5, "IsBigHat", 0, 0) ELSE p5
        p7 == IF hat.gen_animations
              THEN Metapixels_push(p6, "GenerateWingsAnimations", 0, 0) ELSE p6
        p8 == IF hat.changes_animations
              THEN Metapixels_push(p7, "ChangeAnimationsEveryLevel", 0, 0) ELSE p7
        p9 == IF hat.auto_anim_speed # DEFAULT_AUTO_SPEED
              THEN Metapixels_push(p8, "WingsAutoAnimationsSpeed", U8(hat.auto_anim_speed), 0)
              ELSE p8
        p10 == IF hat.auto_glide_frame # frames_amount(hat)
               THEN Metapixels_push(p9, "WingsAutoGlideFrame",
                                    saturating_sub_1(U8(hat.auto_glide_frame)), 0)
               ELSE p9
        p11 == IF hat.auto_idle_frame # DEFAULT_WINGS_IDLE_FRAME
               THEN Metapixels_push(p10, "WingsAutoIdleFrame",
                                    saturating_sub_1(U8(hat.auto_idle_frame)), 0)
               ELSE p10
    IN  Metapixels_push(p11, "FrameSize", U8(hat.frame_size.x), U8(hat.frame_size.y))

---------------------------------------------------------------------------
\* The Wings run: a Wings is encoded by gen_metapixels and the records are
\* loaded again; or the records of any file content are loaded as a Wings and
\* decoded by get_animation at every index.

Rec(pixel_type, g, b) == [r |-> MetapixelType_as_u8(pixel_type), g |-> g, b |-> b]

\* The texture of the wings file.
WingsTexture == Some([width |-> 64, height |-> 32])

\* Offsets: the default, values the editor sets (0..255) and values a load
\* yields (-128..127).
OffsetValues ==
    {[x |-> 128, y |-> 128], [x |-> 0, y |-> 0], [x |-> 128, y |-> 0], [x |-> -128, y |-> 127]}

WingsValues ==
    {[Wings_default(WingsTexture) EXCEPT
          !.general_offset = g, !.crouch_offset = c, !.ragdoll_offset = r,
          !.slide_offset = sl, !.net_offset = n, !.gen_animations = ga,
          !.auto_glide_frame = frames_amount(Wings_default(WingsTexture)),
          !.auto_anim_speed = DEFAULT_AUTO_SPEED] :
        g \in OffsetValues, c \in OffsetValues, r \in OffsetValues,
        sl \in OffsetValues, n \in OffsetValues, ga \in BOOLEAN}

\* Animation headers: a valid kind byte or one past the last kind, a delay
\* byte, a loop byte, a frame or a frame period; and no header.
HeaderLists(delays) ==
    {<<>>} \cup
    {<<Rec("AnimationType", k, 0), Rec("AnimationDelay", d, 0),
       Rec("AnimationLoop", l, 0), f>> :
        k \in {0, Len(AnimationTypeNames)}, d \in delays, l \in {0, 255},
        f \in {Rec("AnimationFrame", 1, 0), Rec("AnimationFramePeriod", 0, 1)}}

\* File contents: up to two headers, then up to MaxRecords records.
RecordLists ==
    {h1 \o h2 \o t :
        h1 \in HeaderLists({0, 4}), h2 \in HeaderLists({4}),
        t \in SeqsOf({Rec("AnimationType", 0, 0), Rec("AnimationDelay", 4, 0),
                      Rec("AnimationLoop", 1, 0), Rec("AnimationFrame", 1, 0),
                      Rec("FrameSize", 0, 32)},
                     0, MaxRecords)}

WingsStart ==
    /\ \/ wings \in {Some(w) : w \in WingsValues} /\ records = <<>>
       \/ wings = None /\ records \in RecordLists
    /\ got = <<>>
    /\ wloaded = [result |-> "none", hat |-> None]
    /\ wpc = "start"

\* Nothing is decoded, in the specifications of the other components.
WingsIdle ==
    /\ wings = None
    /\ records = <<>>
    /\ got = <<>>
    /\ wloaded = [result |-> "none", hat |-> None]
    /\ wpc = "idle"

\* wings.gen_metapixels()
GenWings ==
    /\ wpc = "start" /\ IsSome(wings)
    /\ records' = Wings_gen_metapixels(Unwrap(wings))
    /\ wpc' = "encoded"
    /\ UNCHANGED <<wings, got, wloaded>>
    /\ UNCHANGED <<codecVars, nameVars, readVars, saveVars, hatVars,
                   appVars, keyVars, rangeVars, petVars>>

\* Wings::load_from_name_and_size on the file with these records
LoadWings ==
    /\ wpc = "encoded" \/ (wpc = "start" /\ ~IsSome(wings))
    /\ wloaded' = Wings_load(records, WingsTexture)
    /\ wpc' = "loaded"
    /\ UNCHANGED <<wings, records, got>>
    /\ UNCHANGED <<codecVars, nameVars, readVars, saveVars, hatVars,
                   appVars, keyVars, rangeVars, petVars>>

\* get_animation(&records, i), for every index i up to records.len()
GetAnimations ==
    /\ wpc = "start" /\ ~IsSome(wings)
    /\ got' = [i \in 0..Len(records) |-> get_animation(records, i)]
    /\ wpc' = "got"
    /\ UNCHANGED <<wings, records, wloaded>>
    /\ UNCHANGED <<codecVars, nameVars, readVars, saveVars, hatVars,
                   appVars, keyVars, rangeVars, petVars>>

---------------------------------------------------------------------------
\* tabs.rs: HelpTabData; sprite_drawer.rs: SpriteDrawer::set_anim

MaxTicks == 7

\* SpriteDrawer::set_anim: nothing when the drawer has no animation of the
\* kind.  frame_index never exceeds the frame count here, so the usize
\* subtraction of Reverse does not underflow.
set_anim(drawer, anim_type, behaviour) ==
    LET found == {i \in 1..Len(drawer.animations) :
                      drawer.animations[i].anim_type = anim_type}
    IN  IF found = {} THEN drawer
        ELSE
            LET index == CHOOSE i \in found : \A j \in found : i <= j
                a == drawer.animations[index]
            IN  [drawer EXCEPT
                    !.frame_index = CASE behaviour = "Reset" -> 0
                                      [] behaviour = "Keep" -> @
                                      [] behaviour = "Reverse" -> Len(a.frames) - @,
                    !.paused = FALSE,
                    !.anim_index = index - 1]

\* HelpTabData::update with the Released arm staying Released when no key
\* is pressed.
update_state_sticky(state, pressed_e, down_e) ==
    CASE state = "None" -> IF pressed_e THEN "Pressed" ELSE "None"
      [] state = "Pressed" -> IF down_e THEN "Down" ELSE "Released"
      [] state = "Released" -> IF pressed_e THEN "Pressed" ELSE "Released"
      [] state = "Down" -> IF down_e THEN "Down" ELSE "Released"

\* HelpTabData::update: `self.state = match self.state { .. }`.
update_state(state, pressed_e, down_e) ==
    CASE state = "None" -> IF pressed_e THEN "Pressed" ELSE "None"
      [] state = "Pressed" -> IF down_e THEN "Down" ELSE "Released"
      [] state = "Released" -> IF pressed_e THEN "Pressed" ELSE "None"
      [] state = "Down" -> IF down_e THEN "Down" ELSE "Released"

\* HelpTabData::new: the four drawers (SpriteDrawer::new, then add_animation
\* for every animation of fridge_anims or chest_anims).
HelpTabData_new ==
    LET fridge_anims ==
            <<Animation_new("OnReleaseQuack", 3, TRUE, frames_from_range(0, 49)),
              Animation_new("OnPressQuack", 3, TRUE, frames_from_range(50, 99))>>
        chest_anims ==
            <<Animation_new("OnDefault", 4, FALSE, frames_from_range(0, 0)),
              Animation_new("OnReleaseQuack", 4, FALSE, frames_from_range(7, 0)),
              Animation_new("OnPressQuack", 4, FALSE, frames_from_range(0, 7))>>
        drawer(anims) ==
            [anim_index |-> 0, frame_index |-> 0, paused |-> FALSE, animations |-> anims]
    IN  [example_1 |-> drawer(fridge_anims), example_2 |-> drawer(fridge_anims),
         example_3 |-> drawer(chest_anims), example_4 |-> drawer(chest_anims),
         state |-> "None"]

\* HelpTabData::update
HelpTabData_update(h, pressed_e, down_e) ==
    LET state == update_state(h.state, pressed_e, down_e)
        anim_type == IF state = "Pressed" THEN "OnPressQuack" ELSE "OnReleaseQuack"
    IN  IF state \in {"Pressed", "Released"}
        THEN [example_1 |-> set_anim(h.example_1, anim_type, "Keep"),
              example_2 |-> set_anim(h.example_2, anim_type, "Reset"),
              example_3 |-> set_anim(h.example_3, anim_type, "Reset"),
              example_4 |-> set_anim(h.example_4, anim_type, "Reverse"),
              state |-> state]
        ELSE [h EXCEPT !.state = state]

---------------------------------------------------------------------------
\* The help tab run: the tab is shown and update is called once per tick,
\* with the key inputs of the tick.

KeyStart ==
    /\ help = Some(HelpTabData_new)
    /\ trace = <<HelpTabData_new.state>>

\* The help tab was never opened, in the specifications of the other components.
KeyIdle ==
    /\ help = None
    /\ trace = <<>>

\* help_data.update(ui), key_pressed(E) and key_down(E) being what they are
\* in this tick
Tick ==
    /\ IsSome(help)
    /\ Len(trace) <= MaxTicks
    /\ \E pressed_e, down_e \in BOOLEAN :
        /\ help' = Some(HelpTabData_update(Unwrap(help), pressed_e, down_e))
        /\ trace' = Append(trace, Unwrap(help').state)
    /\ UNCHANGED <<codecVars, nameVars, readVars, saveVars, hatVars, wingsVars,
                   appVars, rangeVars, petVars>>

---------------------------------------------------------------------------
\* hats.rs: FlyingPet, WalkingPet

\* FlyingPet { hat_base: HatBase { frame_size: (MIN_FRAME_SIZE, MIN_FRAME_SIZE),
\* .. }, ..Default::default() }, with PetBase::default()
FlyingPet_default ==
    [hat_type |-> "FlyingPet", frame_size |-> [x |-> MIN_FRAME_SIZE, y |-> MIN_FRAME_SIZE],
     distance |-> DEFAULT_PET_DISTANCE, flipped |-> TRUE, is_big |-> FALSE,
     link_frame_state |-> "Default", animations |-> <<>>,
     changes_angle |-> FALSE, speed |-> DEFAULT_PET_SPEED]

\* WalkingPet { hat_base: HatBase { .. }, ..Default::default() }
WalkingPet_default ==
    [hat_type |-> "WalkingPet", frame_size |-> [x |-> MIN_FRAME_SIZE, y |-> MIN_FRAME_SIZE],
     distance |-> DEFAULT_PET_DISTANCE, flipped |-> TRUE, is_big |-> FALSE,
     link_frame_state |-> "Default", animations |-> <<>>]

\* WalkingPet::load_from_name_and_size: the loop
\* `for (i, pixel) in metapixels.iter().enumerate()`, from index i on.
RECURSIVE WalkingPetLoadPixels(_, _, _)
WalkingPetLoadPixels(hat, metapixels, i) ==
    IF i >= Len(metapixels) THEN hat
    ELSE
        LET pixel == metapixels[i + 1]
            t == get_type(pixel)
            next ==
                CASE t = "PetDistance" -> [hat EXCEPT !.distance = pixel.g]
                  [] t = "PetNoFlip" -> [hat EXCEPT !.flipped = FALSE]
                  [] t = "FrameSize" ->
                         [hat EXCEPT !.frame_size = [x |-> pixel.g, y |-> pixel.b]]
                  [] t = "AnimationType" ->
                         [hat EXCEPT !.animations = @ \o get_animation(metapixels, i)]
                  [] t = "IsBigHat" -> [hat EXCEPT !.is_big = TRUE]
                  [] OTHER -> hat
        IN  WalkingPetLoadPixels(next, metapixels, i + 1)

\* FlyingPet::load_from_name_and_size: the same loop with the arms
\* PetChangesAngle and PetSpeed.
RECURSIVE FlyingPetLoadPixels(_, _, _)
FlyingPetLoadPixels(hat, metapixels, i) ==
    IF i >= Len(metapixels) THEN hat
    ELSE
        LET pixel == metapixels[i + 1]
            t == get_type(pixel)
            next ==
                CASE t = "PetDistance" -> [hat EXCEPT !.distance = pixel.g]
                  [] t = "PetNoFlip" -> [hat EXCEPT !.flipped = FALSE]
                  [] t = "FrameSize" ->
                         [hat EXCEPT !.frame_size = [x |-> pixel.g, y |-> pixel.b]]
                  [] t = "AnimationType" ->
                         [hat EXCEPT !.animations = @ \o get_animation(metapixels, i)]
                  [] t = "IsBigHat" -> [hat EXCEPT !.is_big = TRUE]
                  [] t = "PetChangesAngle" -> [hat EXCEPT !.changes_angle = TRUE]
                  [] t = "PetSpeed" -> [hat EXCEPT !.speed = pixel.g]
                  [] OTHER -> hat
        IN  FlyingPetLoadPixels(next, metapixels, i + 1)

---------------------------------------------------------------------------
\* The pet run: a pet is encoded by its gen_metapixels and the records are
\* loaded by the loader of its kind.

PetBytes == {0, DEFAULT_PET_DISTANCE, 255}
PetFrameSizes == {[x |-> MIN_FRAME_SIZE, y |-> MIN_FRAME_SIZE], [x |-> 64, y |-> MIN_FRAME_SIZE]}
PetAnimations == {<<>>, <<Animation_new("OnDefault", 4, FALSE, <<0, 1>>)>>}

PetValues ==
    {[FlyingPet_default EXCEPT !.distance = d, !.flipped = f, !.link_frame_state = l,
                               !.changes_angle = c, !.speed = sp, !.frame_size = fs,
                               !.animations = a] :
        d \in PetBytes, f \in BOOLEAN, l \in {"Default", "Saved", "Inverted"},
        c \in BOOLEAN, sp \in PetBytes, fs \in PetFrameSizes, a \in PetAnimations}
    \cup
    {[WalkingPet_default EXCEPT !.distance = d, !.flipped = f, !.link_frame_state = l,
                                !.frame_size = fs, !.animations = a] :
        d \in PetBytes, f \in BOOLEAN, l \in {"Default", "Saved", "Inverted"},
        fs \in PetFrameSizes, a \in PetAnimations}

PetStart ==
    /\ pet \in PetValues
    /\ pet_records = <<>>
    /\ pet_loaded = None
    /\ ppc = "start"

\* No pet is encoded, in the specifications of the other components.
PetIdle ==
    /\ pet = WalkingPet_default
    /\ pet_records = <<>>
    /\ pet_loaded = None
    /\ ppc = "idle"

\* pet.gen_metapixels()
GenPet ==
    /\ ppc = "start"
    /\ pet_records' = IF pet.hat_type = "FlyingPet" THEN FlyingPet_gen_metapixels(pet)
                      ELSE WalkingPet_gen_metapixels(pet)
    /\ ppc' = "encoded"
    /\ UNCHANGED <<pet, pet_loaded>>
    /\ UNCHANGED <<codecVars, nameVars, readVars, saveVars, hatVars, wingsVars,
                   appVars, keyVars, rangeVars>>

\* <kind>::load_from_name_and_size on a readable file with these records
LoadPet ==
    /\ ppc = "encoded"
    /\ pet_loaded' = Some(IF pet.hat_type = "FlyingPet"
                          THEN FlyingPetLoadPixels(FlyingPet_default, pet_records, 0)
                          ELSE WalkingPetLoadPixels(WalkingPet_default, pet_records, 0))
    /\ ppc' = "loaded"
    /\ UNCHANGED <<pet, pet_records>>
    /\ UNCHANGED <<codecVars, nameVars, readVars, saveVars, hatVars, wingsVars,
                   appVars, keyVars, rangeVars>>

---------------------------------------------------------------------------
\* The range run: frames_from_range is called on a pair of integers, is_range
\* on a non-empty list of integers.

MaxRange == 3
MaxListLen == 4

\* Integers around zero, and the largest byte.  The differences of any two
\* stay far from the limits of an i32.
RangeValues == (-MaxRange..MaxRange) \cup {255}
ListValues == -1..2

RangeStart ==
    /\ \/ range_in \in [kind : {"pair"}, start : RangeValues, end : RangeValues]
       \/ range_in \in [kind : {"list"}, frames : SeqsOf(ListValues, 1, MaxListLen)]
    /\ range_out = None

\* Neither function is called, in the specifications of the other components.
RangeIdle ==
    /\ range_in = [kind |-> "none"]
    /\ range_out = None

\* frames_from_range(start, end)
FromRange ==
    /\ range_in.kind = "pair" /\ range_out = None
    /\ range_out' = Some(frames_from_range(range_in.start, range_in.end))
    /\ UNCHANGED range_in
    /\ UNCHANGED <<codecVars, nameVars, readVars, saveVars, hatVars, wingsVars,
                   appVars, keyVars, petVars>>

\* is_range(&frames)
IsRange ==
    /\ range_in.kind = "list" /\ range_out = None
    /\ range_out' = Some(is_range(range_in.frames))
    /\ UNCHANGED range_in
    /\ UNCHANGED <<codecVars, nameVars, readVars, saveVars, hatVars, wingsVars,
                   appVars, keyVars, petVars>>

---------------------------------------------------------------------------
\* texture.rs: Texture; hats.rs: the loaders with their textures;
\* main.rs, tabs.rs: the tabs of the editor

MaxTabs == 2
MaxOps == 4

\* HatNameAndSize::is_name_valid is called by every loader and defined nowhere
\* under src/: the names it accepts are the set valid_names, which is any set
\* of names and the same set during a run.
is_name_valid(name_and_size) == name_and_size.name \in valid_names

\* Texture::delete: gl.delete_texture on the native name.  `g` counts the
\* delete_texture calls per name.
Texture_delete(texture, g) == [g EXCEPT ![texture.native] = @ + 1]

\* Texture::from_path: Err (None) when Bitmap::from_path fails or the image is
\* empty, otherwise a texture under the name gl.create_texture returns.  The
\* names are taken to be new ones: a driver that hands a deleted name out
\* again makes a handle of a deleted texture the handle of a later one.
Texture_from_path(g, path) ==
    IF ~IsSome(path.bitmap) THEN [texture |-> None, gl |-> g]
    ELSE IF Unwrap(path.bitmap).width = 0 \/ Unwrap(path.bitmap).height = 0
    THEN [texture |-> None, gl |-> g]
    ELSE [texture |-> Some([native |-> Len(g) + 1,
                            width |-> Unwrap(path.bitmap).width,
                            height |-> Unwrap(path.bitmap).height,
                            path |-> Some(path.stem)]),
          gl |-> Append(g, 0)]

\* Texture::replace_from_path: self.delete(gl), then Texture::from_path; its
\* Err returns None with the deleted name still in the texture.
replace_from_path(texture, g, path) ==
    LET deleted == Texture_delete(texture, g)
        new_texture == Texture_from_path(deleted, path)
    IN  IF ~IsSome(new_texture.texture)
        THEN [texture |-> texture, gl |-> deleted, result |-> None]
        ELSE [texture |-> Unwrap(new_texture.texture), gl |-> new_texture.gl,
              result |-> Some(TRUE)]

\* Wereable::load_from_name_and_size: the loop over the metapixels, from index i on.
RECURSIVE WereableLoadPixels(_, _, _)
WereableLoadPixels(hat, metapixels, i) ==
    IF i >= Len(metapixels) THEN hat
    ELSE
        LET pixel == metapixels[i + 1]
            t == get_type(pixel)
            next ==
                CASE t = "OnSpawnAnimation" ->
                         [hat EXCEPT !.on_spawn_animation = AnimationType_from_u8(pixel.g)]
                  [] t = "StrappedOn" -> [hat EXCEPT !.strapped_on = TRUE]
                  [] t = "IsBigHat" -> [hat EXCEPT !.is_big = TRUE]
                  [] t = "FrameSize" ->
                         [hat EXCEPT !.frame_size = [x |-> pixel.g, y |-> pixel.b]]
                  [] t = "LinkFrameState" ->
                         [hat EXCEPT !.link_frame_state =
                             CASE pixel.g = 1 -> "Saved" [] pixel.g = 2 -> "Inverted"
                               [] OTHER -> "Default"]
                  [] t = "AnimationType" ->
                         [hat EXCEPT !.animations = @ \o get_animation(metapixels, i)]
                  [] OTHER -> hat
        IN  WereableLoadPixels(next, metapixels, i + 1)

\* HatBase of a loaded element
HatBase(hat_type, id, name_and_size, size, path, texture) ==
    [hat_type |-> hat_type, id |-> id,
     name |-> IF is_name_valid(name_and_size) THEN Some(name_and_size.name) ELSE None,
     hat_area_size |-> size, bitmap |-> path.bitmap, texture |-> texture]

\* The fields of r with the fields of base put over them.
WithBase(r, base) ==
    [f \in (DOMAIN r) \cup (DOMAIN base) |-> IF f \in DOMAIN base THEN base[f] ELSE r[f]]

\* Wereable { base, ..Default::default() }
Wereable_default ==
    [frame_size |-> [x |-> MIN_FRAME_SIZE, y |-> MIN_FRAME_SIZE],
     strapped_on |-> FALSE, is_big |-> FALSE, on_spawn_animation |-> None,
     link_frame_state |-> "Default", animations |-> <<>>]

\* Wereable::load_from_name_and_size: Texture::from_path, then
\* get_metapixels_and_size, then hat_id() and the loop.
Wereable_load_from_name_and_size(path, name_and_size, g, counter) ==
    LET texture == Texture_from_path(g, path)
        ms == get_metapixels_and_size(path, name_and_size)
    IN  IF ~IsSome(texture.texture) THEN [element |-> None, gl |-> g, counter |-> counter]
        ELSE IF ~IsSome(ms) THEN [element |-> None, gl |-> texture.gl, counter |-> counter]
        ELSE [element |-> Some(WereableLoadPixels(
                    WithBase(Wereable_default,
                             HatBase("Wereable", hat_id(counter).id, name_and_size,
                                     Unwrap(ms).size, path, texture.texture)),
                    Unwrap(ms).metapixels, 0)),
              gl |-> texture.gl, counter |-> hat_id(counter).counter]

\* FlyingPet::load_from_name_and_size: get_metapixels_and_size, then
\* Texture::from_path, then hat_id() and the loop.
FlyingPet_load_from_name_and_size(path, name_and_size, g, counter) ==
    LET ms == get_metapixels_and_size(path, name_and_size)
        texture == Texture_from_path(g, path)
    IN  IF ~IsSome(ms) \/ ~IsSome(texture.texture)
        THEN [element |-> None, gl |-> g, counter |-> counter]
        ELSE [element |-> Some(FlyingPetLoadPixels(
                    WithBase(FlyingPet_default,
                             HatBase("FlyingPet", hat_id(counter).id, name_and_size,
                                     Unwrap(ms).size, path, texture.texture)),
                    Unwrap(ms).metapixels, 0)),
              gl |-> texture.gl, counter |-> hat_id(counter).counter]

\* LoadHat::load_from_path: the name and size are those of the file stem.
LoadHat_load_from_path(hat_type, path, g, counter) ==
    IF hat_type = "Wereable"
    THEN Wereable_load_from_name_and_size(path, get_name_and_size(path.stem), g, counter)
    ELSE FlyingPet_load_from_name_and_size(path, get_name_and_size(path.stem), g, counter)

\* Hat::load with the textures: the body of `for entry in read_dir(path)` over
\* the entries left.  The directories here hold files of the arms
\* WEREABLE_NAME and FLYING_PET_NAME only.
RECURSIVE LoadDir(_, _, _, _)
LoadDir(h, g, counter, entries) ==
    IF entries = <<>> THEN [hat |-> h, gl |-> g, counter |-> counter]
    ELSE
        LET entry == Head(entries)
            name_and_size == get_name_and_size(entry.stem)
            arm == load_arm(to_lowercase(name_and_size.name))
        IN  IF arm = Some("FlyingPet")
            THEN LET l == FlyingPet_load_from_name_and_size(entry, name_and_size, g, counter)
                 IN  IF ~IsSome(l.element) THEN LoadDir(h, l.gl, l.counter, Tail(entries))
                     ELSE LoadDir(add_pet(h, Unwrap(l.element)), l.gl, l.counter,
                                  Tail(entries))
            ELSE IF arm = Some("Wereable")
            THEN LET l == Wereable_load_from_name_and_size(entry, name_and_size, g, counter)
                 IN  IF ~IsSome(l.element) THEN LoadDir(h, l.gl, l.counter, Tail(entries))
                     ELSE LoadDir(add_unique_hat(h, "Wereable", Unwrap(l.element)),
                                  l.gl, l.counter, Tail(entries))
            ELSE LoadDir(h, g, counter, Tail(entries))

\* The elements in the order Hat::save writes them: unique_elemets.values(),
\* then pets.
SaveOrder(h) ==
    (IF "Wereable" \in DOMAIN h.unique_elemets THEN <<h.unique_elemets["Wereable"]>>
     ELSE <<>>) \o h.pets

\* Hat::delete_textures
RECURSIVE delete_textures(_, _)
delete_textures(elements, g) ==
    IF elements = <<>> THEN g
    ELSE delete_textures(Tail(elements),
                         IF IsSome(Head(elements).texture)
                         THEN Texture_delete(Unwrap(Head(elements).texture), g) ELSE g)

\* The directory after the files are written into the emptied directory: a
\* file written under the name of an earlier file replaces it.
RECURSIVE WriteFiles(_, _)
WriteFiles(dir, files) ==
    IF files = <<>> THEN dir
    ELSE LET written == Head(files)
             kept == SelectSeq(dir, LAMBDA f : f.stem # written.stem)
         IN  WriteFiles(Append(kept, written), Tail(files))

\* Tab::new
Tab_new(hat, path) == [hat |-> hat, path |-> path, keep_metapixels |-> TRUE]

\* The element with this id in the bundle, as a sequence of at most one element.
element_from_id(h, id) == SelectSeq(SaveOrder(h), LAMBDA e : e.id = id)

---------------------------------------------------------------------------
\* The editor run: directories are opened, elements are added from picked
\* files, their images are replaced, they are removed, bundles are saved and
\* tabs are closed.

StrappedOnPixel == Pixel_from_rgb(MetapixelType_as_u8("StrappedOn"), 0, 0)

\* The files a file dialog can pick: an image without metapixels, an image of
\* a strapped-on hat, and a file that is no image.
ImageFiles ==
    { [stem |-> <<"h", "a", "t">>,
       bitmap |-> Some(MakeBitmap(1, 1, Pixel_from_rgb(10, 0, 0), <<>>))],
      [stem |-> SizedStem(<<"h", "a", "t">>, 1, 1),
       bitmap |-> Some(MakeBitmap(1, 1, Pixel_from_rgb(20, 0, 0), <<StrappedOnPixel>>))],
      [stem |-> <<"h", "a", "t">>, bitmap |-> None] }

Dirs == {"d1", "d2"}

AppStart ==
    /\ tabs = <<>>
    /\ gl = <<>>
    /\ disk = [d \in Dirs |->
                IF d = "d1"
                THEN <<[stem |-> SizedStem(<<"h", "a", "t">>, 1, 1),
                        bitmap |-> Some(MakeBitmap(1, 1, Pixel_from_rgb(30, 0, 0),
                                                   <<StrappedOnPixel>>))]>>
                ELSE <<>>]
    /\ ops = [count |-> 0, last |-> [op |-> "none"]]
    /\ valid_names \in SUBSET {<<"h", "a", "t">>}

\* No tab is open, in the specifications of the other components.
AppIdle ==
    /\ tabs = <<>>
    /\ gl = <<>>
    /\ disk = [d \in Dirs |-> <<>>]
    /\ ops = [count |-> 0, last |-> [op |-> "idle"]]
    /\ valid_names = {}

\* What an editor operation leaves alone outside the tabs, the GL context,
\* the directories and HAT_ID_COUNTER.
appRest == <<codecVars, nameVars, readVars, saveVars, wingsVars, keyVars, rangeVars,
             petVars, directory, bundle, FRAME_ID_COUNTER, anim_frames, edits, hpc,
             valid_names>>

\* The operation is counted and kept as the last one: the tab and the element
\* it was applied to, the element as it was before, and the file picked.
Done(op, tab, id, before, picked, result) ==
    ops' = [count |-> ops.count + 1,
            last |-> [op |-> op, tab |-> tab, id |-> id, before |-> before,
                      picked |-> picked, result |-> result]]

\* The bundle with the element of this id replaced in place by `element`.
with_element(h, id, element) ==
    [unique_elemets |-> [k \in DOMAIN h.unique_elemets |->
                            IF h.unique_elemets[k].id = id THEN element
                            ELSE h.unique_elemets[k]],
     pets |-> [i \in 1..Len(h.pets) |-> IF h.pets[i].id = id THEN element ELSE h.pets[i]]]

\* MyEguiApp::open_hat on a picked directory that no tab has as its path.
OpenHat ==
    /\ ops.count < MaxOps
    /\ Len(tabs) < MaxTabs
    /\ \E dir_path \in Dirs :
        /\ ~\E t \in 1..Len(tabs) : tabs[t].path = Some(dir_path)
        /\ \E l \in {LoadDir(Hat_new, gl, HAT_ID_COUNTER, disk[dir_path])} :
               /\ tabs' = Append(tabs, Tab_new(l.hat, Some(dir_path)))
               /\ gl' = l.gl
               /\ HAT_ID_COUNTER' = l.counter
    /\ Done("OpenHat", Len(tabs) + 1, 0, None, None, "ok")
    /\ UNCHANGED disk
    /\ UNCHANGED appRest

\* MyEguiApp::add_new_hat
AddNewHat ==
    /\ ops.count < MaxOps
    /\ Len(tabs) < MaxTabs
    /\ tabs' = Append(tabs, Tab_new(Hat_new, None))
    /\ Done("AddNewHat", Len(tabs) + 1, 0, None, None, "ok")
    /\ UNCHANGED <<gl, disk, HAT_ID_COUNTER>>
    /\ UNCHANGED appRest

\* MyEguiApp::draw_elements_menu, "Add": a Wereable when the bundle has none,
\* a FlyingPet while can_add_pets, loaded from the picked file.
DrawElementsMenu ==
    /\ ops.count < MaxOps
    /\ \E t \in 1..Len(tabs), hat_type \in {"Wereable", "FlyingPet"}, picked \in ImageFiles :
        /\ hat_type = "Wereable" => "Wereable" \notin DOMAIN tabs[t].hat.unique_elemets
        /\ hat_type = "FlyingPet" => can_add_pets(tabs[t].hat)
        /\ \E l \in {LoadHat_load_from_path(hat_type, picked, gl, HAT_ID_COUNTER)} :
               /\ gl' = l.gl
               /\ HAT_ID_COUNTER' = l.counter
               /\ tabs' = IF ~IsSome(l.element) THEN tabs
                          ELSE [tabs EXCEPT ![t].hat = add_element(@, Unwrap(l.element))]
               /\ Done("DrawElementsMenu", t, 0, None, Some(picked),
                       IF IsSome(l.element) THEN "ok" ELSE "err")
    /\ UNCHANGED disk
    /\ UNCHANGED appRest

\* The "Keep metapixels" checkbox of an element's panel.
KeepMetapixels ==
    /\ ops.count < MaxOps
    /\ \E t \in 1..Len(tabs) :
        /\ SaveOrder(tabs[t].hat) # <<>>
        /\ tabs' = [tabs EXCEPT ![t].keep_metapixels = ~@]
        /\ Done("KeepMetapixels", t, 0, None, None, "ok")
    /\ UNCHANGED <<gl, disk, HAT_ID_COUNTER>>
    /\ UNCHANGED appRest

\* draw_wereable_hat_ui, draw_flying_pet_ui: a new image is picked for the
\* element.  Without keep_metapixels the file is loaded as a new element, which
\* replaces the element; with it the texture is replaced from the file.
SetTexture ==
    /\ ops.count < MaxOps
    /\ \E t \in 1..Len(tabs), picked \in ImageFiles :
        \E hat \in iter_all_elements(tabs[t].hat) :
            IF ~tabs[t].keep_metapixels
            THEN \E l \in {LoadHat_load_from_path(hat.hat_type, picked, gl,
                                                  HAT_ID_COUNTER)} :
                     /\ gl' = l.gl
                     /\ HAT_ID_COUNTER' = l.counter
                     /\ tabs' = IF ~IsSome(l.element) THEN tabs
                                ELSE [tabs EXCEPT ![t].hat =
                                        replace_element(@, hat.id, Unwrap(l.element))]
                     /\ Done("SetTexture", t, hat.id, Some(hat), Some(picked),
                             IF IsSome(l.element) THEN "replaced" ELSE "err")
            ELSE \E r \in {replace_from_path(Unwrap(hat.texture), gl, picked)} :
                     /\ gl' = r.gl
                     /\ tabs' = [tabs EXCEPT ![t].hat =
                                    with_element(@, hat.id,
                                        [hat EXCEPT !.texture = Some(r.texture)])]
                     /\ Done("SetTexture", t, hat.id, Some(hat), Some(picked),
                             IF IsSome(r.result) THEN "kept" ELSE "err")
                     /\ UNCHANGED HAT_ID_COUNTER
    /\ UNCHANGED disk
    /\ UNCHANGED appRest

\* The "Remove" button of an element's panel: hat.remove_element(id).
RemoveTabElement ==
    /\ ops.count < MaxOps
    /\ \E t \in 1..Len(tabs) :
        \E hat \in iter_all_elements(tabs[t].hat) :
            /\ tabs' = [tabs EXCEPT ![t].hat = remove_element(@, hat.id)]
            /\ Done("RemoveTabElement", t, hat.id, Some(hat), None, "ok")
    /\ UNCHANGED <<gl, disk, HAT_ID_COUNTER>>
    /\ UNCHANGED appRest

\* hat.save(dir_path) of a tab: the directory is removed and created, and the
\* files of the elements are written until one fails.
SaveTo(t, dir_path, op) ==
    \E oob_panics \in BOOLEAN :
        \E r \in {Hat_save(SaveOrder(tabs[t].hat), TRUE, TRUE, oob_panics, TRUE)} :
            /\ disk' = [disk EXCEPT ![dir_path] = WriteFiles(<<>>, r.files)]
            /\ Done(op, t, 0, None, None, r.result)

\* MyEguiApp::save_hat_as: the picked directory becomes the path of the
\* bundle, and the bundle is saved there.
SaveHatAs ==
    /\ ops.count < MaxOps
    /\ \E t \in 1..Len(tabs), dir_path \in Dirs :
        /\ tabs' = [tabs EXCEPT ![t].path = Some(dir_path)]
        /\ SaveTo(t, dir_path, "SaveHatAs")
    /\ UNCHANGED <<gl, HAT_ID_COUNTER>>
    /\ UNCHANGED appRest

\* MyEguiApp::save_hat, which is enabled for a bundle with a path.
SaveHat ==
    /\ ops.count < MaxOps
    /\ \E t \in 1..Len(tabs) :
        /\ IsSome(tabs[t].path)
        /\ SaveTo(t, Unwrap(tabs[t].path), "SaveHat")
    /\ UNCHANGED <<tabs, gl, HAT_ID_COUNTER>>
    /\ UNCHANGED appRest

\* MyTabViewer::on_close: hat.delete_textures(gl), and the tab is gone.
OnClose ==
    /\ ops.count < MaxOps
    /\ \E t \in 1..Len(tabs) :
        /\ gl' = delete_textures(SaveOrder(tabs[t].hat), gl)
        /\ tabs' = [i \in 1..(Len(tabs) - 1) |-> IF i < t THEN tabs[i] ELSE tabs[i + 1]]
        /\ Done("OnClose", t, 0, None, None, "ok")
    /\ UNCHANGED <<disk, HAT_ID_COUNTER>>
    /\ UNCHANGED appRest

---------------------------------------------------------------------------
\* Specifications: one per component, the other components at rest.

CodecInit == CodecStart /\ NameIdle /\ ReadIdle /\ SaveIdle /\ HatIdle /\ WingsIdle
    /\ AppIdle /\ KeyIdle /\ RangeIdle /\ PetIdle
CodecNext == Encode \/ EncodePanic \/ Decode
SpecCodec == CodecInit /\ [][CodecNext]_vars

NameInit == NameStart /\ CodecIdle /\ ReadIdle /\ SaveIdle /\ HatIdle /\ WingsIdle
    /\ AppIdle /\ KeyIdle /\ RangeIdle /\ PetIdle
NameNext == ParseName
SpecName == NameInit /\ [][NameNext]_vars

ReadInit == ReadStart /\ CodecIdle /\ NameIdle /\ SaveIdle /\ HatIdle /\ WingsIdle
    /\ AppIdle /\ KeyIdle /\ RangeIdle /\ PetIdle
ReadNext == InsertPixel \/ ReadFile
SpecRead == ReadInit /\ [][ReadNext]_vars

SaveInit == SaveStart /\ CodecIdle /\ NameIdle /\ ReadIdle /\ HatIdle /\ WingsIdle
    /\ AppIdle /\ KeyIdle /\ RangeIdle /\ PetIdle
SaveNext == Save \/ ReadBack \/ HatSave
SpecSave == SaveInit /\ [][SaveNext]_vars

Init == HatStart /\ CodecIdle /\ NameIdle /\ ReadIdle /\ SaveIdle /\ WingsIdle
    /\ AppIdle /\ KeyIdle /\ RangeIdle /\ PetIdle
Next ==
    \/ Load
    \/ AddElement \/ MenuAddUnique \/ MenuAddPet
    \/ RemoveElement \/ ReplaceElement
    \/ AddFrame \/ CloneFrame \/ DeleteFrame
Spec == Init /\ [][Next]_vars

WingsInit == WingsStart /\ CodecIdle /\ NameIdle /\ ReadIdle /\ SaveIdle /\ HatIdle
    /\ AppIdle /\ KeyIdle /\ RangeIdle /\ PetIdle
WingsNext == GenWings \/ LoadWings \/ GetAnimations
SpecWings == WingsInit /\ [][WingsNext]_vars

RangeInit == RangeStart /\ CodecIdle /\ NameIdle /\ ReadIdle /\ SaveIdle /\ HatIdle /\ WingsIdle
    /\ AppIdle /\ KeyIdle /\ PetIdle
RangeNext == FromRange \/ IsRange
SpecRange == RangeInit /\ [][RangeNext]_vars

PetInit == PetStart /\ CodecIdle /\ NameIdle /\ ReadIdle /\ SaveIdle /\ HatIdle /\ WingsIdle
    /\ AppIdle /\ KeyIdle /\ RangeIdle
PetNext == GenPet \/ LoadPet
SpecPet == PetInit /\ [][PetNext]_vars

AppInit == AppStart /\ CodecIdle /\ NameIdle /\ ReadIdle /\ SaveIdle /\ HatIdle
           /\ WingsIdle /\ KeyIdle /\ RangeIdle /\ PetIdle
AppNext ==
    \/ OpenHat \/ AddNewHat \/ DrawElementsMenu \/ KeepMetapixels \/ SetTexture
    \/ RemoveTabElement \/ SaveHatAs \/ SaveHat \/ OnClose
SpecApp == AppInit /\ [][AppNext]_vars

KeyInit == KeyStart /\ CodecIdle /\ NameIdle /\ ReadIdle /\ SaveIdle /\ HatIdle /\ WingsIdle
    /\ AppIdle /\ RangeIdle /\ PetIdle
KeyNext == Tick
SpecKey == KeyInit /\ [][KeyNext]_vars

---------------------------------------------------------------------------
\* Claims about the animation codec (checked under SpecCodec).

\* C2: for every Animation with a non-empty frame list and delay in 1..255,
\* get_animation at index 0 of its gen_metapixels() returns an Animation with
\* the same kind, delay, looping flag and frame values.
C2_RoundTrip ==
    (cpc = "decoded" /\ Len(anim.frames) > 0 /\ anim.delay \in 1..255)
        => /\ IsSome(decoded)
           /\ Unwrap(decoded).anim_type = anim.anim_type
           /\ Unwrap(decoded).delay = anim.delay
           /\ Unwrap(decoded).looping = anim.looping
           /\ Unwrap(decoded).frames = anim.frames

\* A frame list that is a run of constant step +1 or of constant step -1 and
\* has at least two elements.
IsRun(frames) ==
    /\ Len(frames) >= 2
    /\ \/ \A i \in 1..(Len(frames) - 1) : frames[i + 1] = frames[i] + 1
       \/ \A i \in 1..(Len(frames) - 1) : frames[i + 1] = frames[i] - 1

C7_PeriodLossless ==
    (cpc \in {"encoded", "decoded"} /\ Len(stream) = 4 /\ stream[4].r = 7)
        => frames_from_range(stream[4].g, stream[4].b) = anim.frames

\* C24: gen_metapixels on an Animation with an empty frame list completes and
\* emits exactly the three header records AnimationType, AnimationDelay,
\* AnimationLoop, with no frame record.
C24_EmptyFramesEncode ==
    (anim.frames = <<>> /\ cpc # "start")
        => /\ cpc # "panic"
           /\ Len(stream) = 3
           /\ get_type(stream[1]) = "AnimationType"
           /\ get_type(stream[2]) = "AnimationDelay"
           /\ get_type(stream[3]) = "AnimationLoop"

---------------------------------------------------------------------------
\* Claims about file name parsing (checked under SpecName).

\* C9: for every non-empty stem over letters, digits and '_', the result of
\* get_name_and_size has a non-empty name and a size that is None or has both
\* components strictly positive.
C9_NameNonEmpty ==
    (npc = "done" /\ Len(stem) > 0)
        => /\ parsed.name # <<>>
           /\ \/ parsed.size = None
              \/ Unwrap(parsed.size).x > 0 /\ Unwrap(parsed.size).y > 0

\* C13: get_name_and_size follows <stem>_<w>_<h>: size None and name the whole
\* stem when the stem has no underscore or its two tail segments do not both
\* parse as positive integers; otherwise size (w, h) from the two tail segments
\* and name the first segment.
C13_NameConvention ==
    npc = "done" =>
        LET parts == split(stem)
            n == Len(parts)
            w == IF n >= 3 THEN parse_i32(parts[n - 1]) ELSE None
            h == IF n >= 3 THEN parse_i32(parts[n]) ELSE None
            sized == /\ contains(stem, <<SEPARATOR>>) /\ n >= 3
                     /\ IsSome(w) /\ IsSome(h)
                     /\ Unwrap(w) > 0 /\ Unwrap(h) > 0
        IN  IF sized
            THEN parsed = [name |-> parts[1],
                           size |-> Some([x |-> Unwrap(w), y |-> Unwrap(h)])]
            ELSE parsed = [name |-> stem, size |-> None]

---------------------------------------------------------------------------
\* Claims about reading an element file (checked under SpecRead).

\* C8: inserting, at any position of the metapixel area's pixel sequence, one
\* non-empty pixel whose red channel is no opcode ordinal leaves the decoded
\* Metapixel list, and the animations extracted from it, unchanged.
C8_ForeignPixelIgnored ==
    [][(file'.bitmap # file.bitmap) =>
        LET size == Unwrap(get_name_and_size(file.stem).size)
            before == get_metapixels(Unwrap(file.bitmap), size)
            after == get_metapixels(Unwrap(file'.bitmap), size)
        IN  /\ after = before
            /\ ExtractAnimations(after) = ExtractAnimations(before)]_vars

\* C8 witness: a file with a foreign pixel inserted has been read and at least
\* two records were decoded from it.
C8_Witness ==
    /\ inserted
    /\ rpc = "read"
    /\ IsSome(readres)
    /\ Len(Unwrap(readres).metapixels) >= 2

\* The records of a pixel sequence: its non-empty pixels whose red channel is
\* one of the 24 opcode ordinals, in order.
RecordsOf(pixels) ==
    LET IsRecord(px) == px.a # 0 /\ px.r \in 0..23
        kept == SelectSeq(pixels, IsRecord)
    IN  [n \in 1..Len(kept) |-> [r |-> kept[n].r, g |-> kept[n].g, b |-> kept[n].b]]

\* C10: for a PNG of width w+k and height h named <name>_w_h.png (name a
\* single segment), get_metapixels_and_size returns size (w, h) and exactly
\* the records of columns w..w+k-1 in column-major order; the art columns
\* contribute nothing.
C10_AreaSplit ==
    (rpc = "read" /\ IsSome(file.bitmap)) =>
        \A w \in 1..Unwrap(file.bitmap).width :
            file.stem = SizedStem(ReadName, w, Unwrap(file.bitmap).height) =>
                /\ IsSome(readres)
                /\ Unwrap(readres).size = [x |-> w, y |-> Unwrap(file.bitmap).height]
                /\ Unwrap(readres).metapixels = RecordsOf(ColumnMajor(Unwrap(file.bitmap), w))

\* C10 witness: a_2_2.png, four columns wide, whose art pixels look like
\* records, has been read and its two metapixel columns gave three records.
C10_Witness ==
    /\ rpc = "read"
    /\ file.stem = SizedStem(ReadName, 2, 2)
    /\ IsSome(file.bitmap)
    /\ Unwrap(file.bitmap).width = 4
    /\ Unwrap(file.bitmap).cols[1][1] = Pixel_from_rgb(3, 0, 0)
    /\ Len(Unwrap(readres).metapixels) = 3

---------------------------------------------------------------------------
\* Claims about saving an element (checked under SpecSave).

\* C3: the image SaveHat::save writes holds every encoded record inside the
\* metapixel area, and reading the area back (column-major, empty pixels
\* skipped) yields exactly the encoded record sequence, in order.
C3_SaveKeepsStream ==
    spc = "read"
        => /\ IsSome(readback)
           /\ Unwrap(readback).metapixels = gen_metapixels(elem)

\* C15: Hat::save returns an error whenever removing or recreating the
\* directory fails or the file of an element is not written; it returns Ok
\* only if every element's file was written.
C15_SaveSurfacesFailure ==
    (spc = "hat_saved" /\ saved.result = "ok") => IsSome(saved.file)

\* C16: saving a Room or a Preview (empty stream) with art-area size (W, H)
\* writes a file named <name>_W_H whose image is exactly W columns wide.
C16_EmptyStreamFile ==
    (spc = "saved" /\ elem.hat_type \in {"Room", "Preview"} /\ IsSome(saved.file))
        => /\ Unwrap(saved.file).stem
                  = SizedStem(save_name(elem.hat_type),
                              elem.hat_area_size.x, elem.hat_area_size.y)
           /\ Unwrap(Unwrap(saved.file).bitmap).width = elem.hat_area_size.x

\* The row the k-th record of a stream has when the record after every
\* AnimationType record is two rows below it and every other record is one
\* row below its predecessor.
RECURSIVE RowAfterType(_, _)
RowAfterType(pixels, k) ==
    IF k = 1 THEN 0
    ELSE RowAfterType(pixels, k - 1)
             + (IF get_type(pixels[k - 1]) = "AnimationType" THEN 2 ELSE 1)

\* C17: insert_metapixels leaves one empty pixel directly below every
\* AnimationType record and writes every other record directly below its
\* predecessor (stated for the records whose row is inside the first
\* metapixel column).
C17_RowSkippedAfterType ==
    (spc = "saved" /\ IsSome(saved.file) /\ ~gen_metapixels_panics(elem))
        => LET pixels == gen_metapixels(elem)
               image == Unwrap(Unwrap(saved.file).bitmap)
           IN  \A k \in 1..Len(pixels) :
                   RowAfterType(pixels, k) < image.height
                       => Bitmap_get_pixel(image, elem.hat_area_size.x,
                                           RowAfterType(pixels, k))
                              = Some(Pixel_from_rgb(pixels[k].r, pixels[k].g, pixels[k].b))

---------------------------------------------------------------------------
\* Claims about the bundle and the id registries (checked under Spec).

\* C1: in every bundle reached by Hat::load and then add_element, add_pet,
\* remove_element and replace_element calls, pets holds at most MAX_PETS
\* elements.
C1_PetsBounded == Len(bundle.pets) <= MAX_PETS

\* C4: unique_elemets holds at most one element per kind, the element stored
\* under key k has hat_type k, no pet is stored in unique_elemets, and every
\* element of pets is a FlyingPet or a WalkingPet.
C4_KindMatchesBucket ==
    LET u == bundle.unique_elemets
    IN  /\ \A k \in DOMAIN u : u[k].hat_type = k /\ k \notin {"FlyingPet", "WalkingPet"}
        /\ \A j, k \in DOMAIN u : u[j].hat_type = u[k].hat_type => j = k
        /\ \A i \in 1..Len(bundle.pets) :
               bundle.pets[i].hat_type \in {"FlyingPet", "WalkingPet"}

\* A loaded bundle with pets and unique elements, after an edit put an element
\* under a key that was taken before.
C4_Witness ==
    /\ hpc = "loaded" /\ edits = MaxEdits
    /\ Len(bundle.pets) >= 2
    /\ \E k \in DOMAIN bundle.unique_elemets :
           /\ bundle.unique_elemets[k].id = HAT_ID_COUNTER - 1
           /\ Cardinality(DOMAIN bundle.unique_elemets) >= 2
           /\ \E i \in 1..Len(Unwrap(directory)) :
                  load_arm(to_lowercase(get_name_and_size(Unwrap(directory)[i].stem).name))
                      = Some(k)

\* C5: hat_id() and frame_id() never reissue an id: the counters only grow,
\* every id in use is below its counter (so the next id is greater than all
\* issued before), the elements of the bundle have pairwise distinct ids, and
\* the frames have pairwise distinct ids, a clone and its original included.
C5_IdsNeverReissued ==
    /\ [](/\ \A e \in iter_all_elements(bundle) : e.id < HAT_ID_COUNTER
          /\ \A i \in 1..Len(anim_frames) : anim_frames[i].id < FRAME_ID_COUNTER
          /\ Cardinality({e.id : e \in iter_all_elements(bundle)})
                 = Cardinality(DOMAIN bundle.unique_elemets) + Len(bundle.pets)
          /\ \A i, j \in 1..Len(anim_frames) :
                 anim_frames[i].id = anim_frames[j].id => i = j)
    /\ [][/\ HAT_ID_COUNTER' >= HAT_ID_COUNTER
          /\ FRAME_ID_COUNTER' >= FRAME_ID_COUNTER
          /\ \A e \in iter_all_elements(bundle)' :
                 e \notin iter_all_elements(bundle)
                     => e.id >= HAT_ID_COUNTER /\ e.id < HAT_ID_COUNTER'
          /\ \A i \in 1..Len(anim_frames') :
                 (\A j \in 1..Len(anim_frames) : anim_frames[j] # anim_frames'[i])
                     => anim_frames'[i].id >= FRAME_ID_COUNTER
                        /\ anim_frames'[i].id < FRAME_ID_COUNTER']_vars

\* A bundle of several elements, one of them added after the load, and a frame
\* list holding a frame and its clone.
C5_Witness ==
    /\ hpc = "loaded"
    /\ Cardinality(iter_all_elements(bundle)) >= 3
    /\ Len(anim_frames) = 2
    /\ anim_frames[1].value = anim_frames[2].value
    /\ HAT_ID_COUNTER >= 3 /\ FRAME_ID_COUNTER = 2

\* C20: replace_element(id, e), the bundle holding an element with that id
\* and e being of the same kind with another id, leaves no element with id,
\* holds e, keeps the number of elements, and leaves every other element and
\* the relative order of the other pets unchanged.
C20_ReplaceKeepsOthers ==
    [][\A o \in iter_all_elements(bundle) :
        LET e == [hat_type |-> o.hat_type, id |-> HAT_ID_COUNTER]
            u == bundle.unique_elemets
            u2 == bundle'.unique_elemets
        IN  (/\ hpc = "loaded"
             /\ HAT_ID_COUNTER' = HAT_ID_COUNTER + 1
             /\ bundle' = replace_element(bundle, o.id, e))
            => /\ \A x \in iter_all_elements(bundle') : x.id # o.id
               /\ e \in iter_all_elements(bundle')
               /\ Cardinality(DOMAIN u2) + Len(bundle'.pets)
                      = Cardinality(DOMAIN u) + Len(bundle.pets)
               /\ \A k \in DOMAIN u : u[k].id # o.id => k \in DOMAIN u2 /\ u2[k] = u[k]
               /\ SelectSeq(bundle'.pets, LAMBDA x : x # e)
                      = SelectSeq(bundle.pets, LAMBDA x : x.id # o.id)]_vars

\* A bundle loaded from pet files only, after one operation that drew an id
\* and left as many pets as were loaded: a pet was replaced by a pet.
C20_Witness ==
    /\ hpc = "loaded" /\ edits = 1
    /\ DOMAIN bundle.unique_elemets = {}
    /\ Len(bundle.pets) >= 3
    /\ Len(bundle.pets) = Len(Unwrap(directory))
    /\ HAT_ID_COUNTER = Len(bundle.pets) + 1
    /\ bundle.pets[Len(bundle.pets)].id = HAT_ID_COUNTER - 1

---------------------------------------------------------------------------
\* Claims about decoding record lists and about Wings (checked under SpecWings).

\* The four positions from index i exist and hold an AnimationType, an
\* AnimationDelay, an AnimationLoop and an AnimationFrame or
\* AnimationFramePeriod record, the kind byte being an ordinal 0..11.
IsHeaderAt(list, i) ==
    /\ i + 4 <= Len(list)
    /\ get_type(list[i + 1]) = "AnimationType"
    /\ get_type(list[i + 2]) = "AnimationDelay"
    /\ get_type(list[i + 3]) = "AnimationLoop"
    /\ get_type(list[i + 4]) \in {"AnimationFrame", "AnimationFramePeriod"}
    /\ list[i + 1].g \in 0..11

\* C11: get_animation(list, i) returns an Animation if and only if the four
\* positions from i exist and hold a header with a valid kind byte; a header
\* dropped for its kind byte leaves the result at every other index as it is.
C11_AnimationIffHeader ==
    wpc = "got" => \A i \in DOMAIN got : IsSome(got[i]) <=> IsHeaderAt(records, i)

\* A list with a header dropped for its kind byte, and a header after it that
\* decodes.
C11_Witness ==
    /\ wpc = "got"
    /\ Len(records) >= 8
    /\ records[1] = Rec("AnimationType", 12, 0)
    /\ ~IsSome(got[0])
    /\ IsSome(got[4])

\* C12: the looping flag of the Animation get_animation returns is (g # 0)
\* of the AnimationLoop record's g byte.
C12_LoopingRule ==
    wpc = "got" =>
        \A i \in DOMAIN got :
            IsSome(got[i]) => (Unwrap(got[i]).looping <=> records[i + 3].g # 0)

\* C23: every Animation a bundle holds has 1 <= delay <= 255; here, every
\* Animation get_animation returns for the records of a file, which the
\* loaders push into the element's animations.
C23_DelayInRange ==
    wpc = "got"
        => \A i \in DOMAIN got :
               IsSome(got[i]) => Unwrap(got[i]).delay \in 1..255

\* C14: for every content of the metapixel area, load_from_name_and_size
\* completes normally: it returns an element or an error and does not panic.
C14_LoadTotal == wpc = "loaded" => wloaded.result # "panic"

\* The offsets of a Wings, in the order general, crouch, ragdoll, slide, net,
\* with the type of the record of each.
WingsOffsets(w) ==
    << <<"WingsGeneralOffset", w.general_offset>>, <<"WingsCrouchOffset", w.crouch_offset>>,
       <<"WingsRagdollOffset", w.ragdoll_offset>>, <<"WingsSlideOffset", w.slide_offset>>,
       <<"WingsNetOffset", w.net_offset>> >>

\* C18: Wings::gen_metapixels emits the record of each of the five offsets if
\* and only if that offset differs from (128, 128).
C18_OffsetEmittedIffSet ==
    (wpc = "encoded" /\ IsSome(wings)) =>
        \A k \in 1..5 :
            LET o == WingsOffsets(Unwrap(wings))[k]
            IN  (\E i \in 1..Len(records) : get_type(records[i]) = o[1])
                    <=> o[2] # [x |-> 128, y |-> 128]

\* C19: for every offset with components in -128..127, loading the records
\* Wings::gen_metapixels emits gives the offset back.
C19_OffsetRoundTrip ==
    (wpc = "loaded" /\ IsSome(wings) /\ wloaded.result = "ok") =>
        \A k \in 1..5 :
            LET o == WingsOffsets(Unwrap(wings))[k][2]
            IN  (o.x \in -128..127 /\ o.y \in -128..127)
                    => WingsOffsets(Unwrap(wloaded.hat))[k][2] = o

---------------------------------------------------------------------------
\* Claims about the help tab's key state machine (checked under SpecKey).

\* C22: the key state machine takes only the listed transitions: None goes to
\* Pressed or stays None; the successor of Pressed is Down or Released; Down
\* and Released are entered only from Pressed or Down; None is entered only
\* from Released or None.  Hence between a Pressed tick and the next None or
\* Pressed tick there is exactly one Released tick.
C22_KeyTransitions ==
    /\ IsSome(help) => trace[Len(trace)] = Unwrap(help).state
    /\ \A i \in 1..(Len(trace) - 1) :
        /\ trace[i] = "None" => trace[i + 1] \in {"Pressed", "None"}
        /\ trace[i] = "Pressed" => trace[i + 1] \in {"Down", "Released"}
        /\ trace[i + 1] \in {"Down", "Released"} => trace[i] \in {"Pressed", "Down"}
        /\ trace[i + 1] = "None" => trace[i] \in {"Released", "None"}
    /\ \A i \in 1..Len(trace) : \A j \in (i + 1)..Len(trace) :
        (/\ trace[i] = "Pressed"
         /\ trace[j] \in {"None", "Pressed"}
         /\ \A k \in (i + 1)..(j - 1) : trace[k] \notin {"None", "Pressed"})
        => Cardinality({k \in (i + 1)..(j - 1) : trace[k] = "Released"}) = 1

\* A run through Pressed, Down, Released and back to None, and one where a
\* key press follows the release at once.
C22_Witness ==
    /\ Len(trace) >= 6
    /\ SubSeq(trace, 2, 6) = <<"Pressed", "Down", "Released", "Pressed", "Released">>
    /\ Unwrap(help).example_4.frame_index = 8

---------------------------------------------------------------------------
\* Claims about frames_from_range and is_range (checked under SpecRange).

\* C25: frames_from_range(start, end) is the inclusive sequence from start to
\* end: its length is |end - start| + 1, its first element is start, its last
\* element is end, and consecutive elements step by +1 when start <= end and
\* by -1 when start > end.
C25_InclusiveRange ==
    (range_in.kind = "pair" /\ IsSome(range_out))
        => LET out == Unwrap(range_out)
               start == range_in.start
               end == range_in.end
               dist == IF end >= start THEN end - start ELSE start - end
           IN  /\ Len(out) = dist + 1
               /\ out[1] = start
               /\ out[Len(out)] = end
               /\ \A i \in 1..(Len(out) - 1) :
                      out[i + 1] = out[i] + (IF start <= end THEN 1 ELSE -1)

\* A descending range with a negative end has been expanded.
C25_Witness ==
    /\ range_in.kind = "pair" /\ IsSome(range_out)
    /\ range_in.start = 2 /\ range_in.end = -MaxRange
    /\ Unwrap(range_out)[2] = 1

\* C26: for a non-empty list, is_range returns true when the list is an
\* ascending or a descending run of consecutive integers (of any length >= 1)
\* and false when some adjacent pair does not differ by exactly 1.
C26_IsRangeOnRuns ==
    (range_in.kind = "list" /\ IsSome(range_out))
        => LET frames == range_in.frames
               n == Len(frames)
               ascending == \A i \in 1..(n - 1) : frames[i + 1] = frames[i] + 1
               descending == \A i \in 1..(n - 1) : frames[i + 1] = frames[i] - 1
               off_pair == \E i \in 1..(n - 1) :
                               frames[i + 1] - frames[i] \notin {1, -1}
           IN  /\ (ascending \/ descending) => Unwrap(range_out) = TRUE
               /\ off_pair => Unwrap(range_out) = FALSE

\* is_range has answered true on a descending run of four integers.
C26_Witness ==
    /\ range_in.kind = "list" /\ IsSome(range_out)
    /\ range_in.frames = <<2, 1, 0, -1>>
    /\ Unwrap(range_out) = TRUE

---------------------------------------------------------------------------
\* Claims about the pets (checked under SpecPet).

\* C28: decoding the stream a FlyingPet or WalkingPet with distance and speed
\* in 0..255 encodes to yields the same distance, flipped flag and
\* link_frame_state and, for a FlyingPet, the same changes_angle and speed.
C28_PetRoundTrip ==
    ppc = "loaded"
        => LET l == Unwrap(pet_loaded)
           IN  /\ l.distance = pet.distance
               /\ l.flipped = pet.flipped
               /\ l.link_frame_state = pet.link_frame_state
               /\ pet.hat_type = "FlyingPet"
                      => l.changes_angle = pet.changes_angle /\ l.speed = pet.speed

---------------------------------------------------------------------------
\* Claims about the editor's tabs (checked under SpecApp).

\* The open tabs with an element that holds the texture name n.
HoldersOf(n) ==
    {t \in 1..Len(tabs) :
        \E e \in iter_all_elements(tabs[t].hat) :
            IsSome(e.texture) /\ Unwrap(e.texture).native = n}

\* C21: every texture name created for an element is passed to delete_texture
\* exactly once, when no element of an open tab holds it any more: never
\* while an element holds it, and neither zero times nor twice afterwards.
C21_TextureReleasedOnce ==
    \A n \in 1..Len(gl) : gl[n] = (IF HoldersOf(n) # {} THEN 0 ELSE 1)

\* C27: after an image replacement with keep_metapixels the element has its
\* id and its parsed fields and animations as before, its texture and its
\* bitmap are those of the picked file, and SaveHat::save writes the art of
\* the picked file.
C27_KeepSwapsBitmap ==
    (ops.last.op = "SetTexture" /\ ops.last.result = "kept")
        => LET before == Unwrap(ops.last.before)
               picked == Unwrap(ops.last.picked)
               now == element_from_id(tabs[ops.last.tab].hat, ops.last.id)
               written == SaveHat_save(now[1], FALSE, TRUE)
           IN  /\ Len(now) = 1
               /\ \A f \in (DOMAIN before) \ {"texture", "bitmap"} : now[1][f] = before[f]
               /\ Unwrap(now[1].texture).path = Some(picked.stem)
               /\ now[1].bitmap = picked.bitmap
               /\ IsSome(written.file)
               /\ Bitmap_get_pixel(Unwrap(Unwrap(written.file).bitmap), 0, 0)
                      = Bitmap_get_pixel(Unwrap(picked.bitmap), 0, 0)

\* C29: no two open tabs have bundles with the same directory path.
C29_PathsDistinct ==
    \A i, j \in 1..Len(tabs) :
        (i # j /\ IsSome(tabs[i].path)) => tabs[i].path # tabs[j].path

\* C30: after Hat::save has returned Ok for a bundle whose elements all have a
\* bitmap, the directory holds as many files as the bundle has elements, and
\* Hat::load on it gives a bundle with as many elements.
C30_OneFilePerElement ==
    (/\ ops.last.op \in {"SaveHat", "SaveHatAs"}
     /\ ops.last.result = "ok"
     /\ \A e \in iter_all_elements(tabs[ops.last.tab].hat) : IsSome(e.bitmap))
        => LET tab == tabs[ops.last.tab]
               dir == disk[Unwrap(tab.path)]
               n == Len(SaveOrder(tab.hat))
           IN  /\ Len(dir) = n
               /\ Len(SaveOrder(LoadDir(Hat_new, gl, HAT_ID_COUNTER, dir).hat)) = n

=============================================================================
